---- MODULE Spec2Model ----
(***************************************************************************)
(* Model of the sudojo_client request/response core: the URL/query         *)
(* builder, the validators, the request executor and the endpoint facade   *)
(* of SudojoClient (network/sudojo-client.ts).                             *)
(*                                                                         *)
(* Strings that the code inspects character by character (query keys,      *)
(* query values, identifiers) are sequences of one-character strings.      *)
(* An optional value (T | undefined) is a sequence of length 0 or 1.       *)
(***************************************************************************)
EXTENDS Integers, Sequences, FiniteSets, TLC

VARIABLES baseUrl, headers, promise, requestCount, bag, built, queries, mutation, calls

vars == <<baseUrl, headers, promise, requestCount, bag, built, queries, mutation,
          calls>>

(***************************************************************************)
(* Bounds of the model.                                                    *)
(***************************************************************************)
MaxRequests == 2
MaxBagLen == 3
MaxValueLen == 3
MaxQueries == 2
MaxCalls == 2

(***************************************************************************)
(* Optional values.                                                        *)
(***************************************************************************)
Undefined == <<>>
Some(v) == <<v>>
IsDefined(o) == Len(o) = 1
Val(o) == o[1]

(***************************************************************************)
(* Characters and UTF-16 code units (printable ASCII, codes 32..126; the   *)
(* grave accent, code 96, is spelled out).                                 *)
(***************************************************************************)
Ascii ==
  <<" ", "!", "\"", "#", "$", "%", "&", "'", "(", ")", "*", "+", ",", "-", ".", "/", "0", "1", "2", "3", "4", "5", "6", "7", "8", "9", ":", ";", "<", "=", ">", "?", "@", "A", "B", "C", "D", "E", "F", "G", "H", "I", "J", "K", "L", "M", "N", "O", "P", "Q", "R", "S", "T", "U", "V", "W", "X", "Y", "Z", "[", "\\", "]", "^", "_", "grave", "a", "b", "c", "d", "e", "f", "g", "h", "i", "j", "k", "l", "m", "n", "o", "p", "q", "r", "s", "t", "u", "v", "w", "x", "y", "z", "{", "|", "}", "~">>

CodeTable ==
  [c \in {Ascii[i] : i \in 1..Len(Ascii)} |->
     31 + (CHOOSE i \in 1..Len(Ascii) : Ascii[i] = c)]

CodeUnit(c) == CodeTable[c]

CharOf(code) == Ascii[code - 31]

HexDigits == <<"0", "1", "2", "3", "4", "5", "6", "7", "8", "9", "A", "B", "C", "D", "E", "F">>

(***************************************************************************)
(* Default comparison of Array.prototype.sort(): strings compared by code  *)
(* unit, a proper prefix sorting first.                                    *)
(***************************************************************************)
RECURSIVE StringLess(_, _)
StringLess(a, b) ==
  IF b = <<>> THEN FALSE
  ELSE IF a = <<>> THEN TRUE
  ELSE IF CodeUnit(Head(a)) < CodeUnit(Head(b)) THEN TRUE
  ELSE IF CodeUnit(Head(a)) > CodeUnit(Head(b)) THEN FALSE
  ELSE StringLess(Tail(a), Tail(b))

RECURSIVE InsertSorted(_, _)
InsertSorted(k, s) ==
  IF s = <<>> THEN <<k>>
  ELSE IF StringLess(k, Head(s)) THEN <<k>> \o s
  ELSE <<Head(s)>> \o InsertSorted(k, Tail(s))

RECURSIVE SortKeys(_)
SortKeys(s) ==
  IF s = <<>> THEN <<>> ELSE InsertSorted(Head(s), SortKeys(Tail(s)))

(***************************************************************************)
(* encodeURIComponent on printable ASCII.                                  *)
(***************************************************************************)
UnreservedMarks == {"-", "_", ".", "!", "~", "*", "'", "(", ")"}

IsUnreserved(c) ==
  \/ c \in UnreservedMarks
  \/ (CodeUnit(c) >= 48 /\ CodeUnit(c) <= 57)
  \/ (CodeUnit(c) >= 65 /\ CodeUnit(c) <= 90)
  \/ (CodeUnit(c) >= 97 /\ CodeUnit(c) <= 122)

PercentEscape(c) ==
  <<"%", HexDigits[(CodeUnit(c) \div 16) + 1], HexDigits[(CodeUnit(c) % 16) + 1]>>

RECURSIVE encodeURIComponent(_)
encodeURIComponent(s) ==
  IF s = <<>> THEN <<>>
  ELSE (IF IsUnreserved(Head(s)) THEN <<Head(s)>> ELSE PercentEscape(Head(s)))
       \o encodeURIComponent(Tail(s))

(***************************************************************************)
(* String.prototype.replace(/%2C/g, ","): every non-overlapping occurrence *)
(* of the three characters %2C, scanning left to right.                    *)
(***************************************************************************)
RECURSIVE ReplaceEscapedCommas(_)
ReplaceEscapedCommas(s) ==
  IF s = <<>> THEN <<>>
  ELSE IF Len(s) >= 3 /\ s[1] = "%" /\ s[2] = "2" /\ s[3] = "C"
       THEN <<",">> \o ReplaceEscapedCommas(SubSeq(s, 4, Len(s)))
       ELSE <<Head(s)>> \o ReplaceEscapedCommas(Tail(s))

(***************************************************************************)
(* Query parameter names used by the facade.                               *)
(***************************************************************************)
Key ==
  [original |-> <<"o", "r", "i", "g", "i", "n", "a", "l">>,
   user |-> <<"u", "s", "e", "r">>,
   autopencilmarks |-> <<"a", "u", "t", "o", "p", "e", "n", "c", "i", "l", "m", "a", "r", "k", "s">>,
   pencilmarks |-> <<"p", "e", "n", "c", "i", "l", "m", "a", "r", "k", "s">>,
   filters |-> <<"f", "i", "l", "t", "e", "r", "s">>,
   techniques |-> <<"t", "e", "c", "h", "n", "i", "q", "u", "e", "s">>,
   symmetrical |-> <<"s", "y", "m", "m", "e", "t", "r", "i", "c", "a", "l">>,
   level |-> <<"l", "e", "v", "e", "l">>,
   limit |-> <<"l", "i", "m", "i", "t">>,
   offset |-> <<"o", "f", "f", "s", "e", "t">>,
   technique_bit |-> <<"t", "e", "c", "h", "n", "i", "q", "u", "e", "_", "b", "i", "t">>,
   technique |-> <<"t", "e", "c", "h", "n", "i", "q", "u", "e">>,
   language_code |-> <<"l", "a", "n", "g", "u", "a", "g", "e", "_", "c", "o", "d", "e">>,
   difficulty |-> <<"d", "i", "f", "f", "i", "c", "u", "l", "t", "y">>]

(***************************************************************************)
(* JavaScript values that reach the query builder, with String(v) and      *)
(* truthiness.                                                             *)
(***************************************************************************)
Str(s) == [b |-> FALSE, s |-> s, t |-> "string", n |-> 0]
Num(n) == [b |-> FALSE, s |-> <<>>, t |-> "number", n |-> n]
Bool(b) == [b |-> b, s |-> <<>>, t |-> "boolean", n |-> 0]

RECURSIVE NumberToString(_)
NumberToString(n) ==
  IF n < 10 THEN <<CharOf(48 + n)>>
  ELSE NumberToString(n \div 10) \o <<CharOf(48 + (n % 10))>>

String(v) ==
  CASE v.t = "string" -> v.s
    [] v.t = "number" -> NumberToString(v.n)
    [] v.t = "boolean" -> IF v.b THEN <<"t", "r", "u", "e">>
                          ELSE <<"f", "a", "l", "s", "e">>

Truthy(v) ==
  CASE v.t = "string" -> v.s # <<>>
    [] v.t = "number" -> v.n # 0
    [] v.t = "boolean" -> v.b

(***************************************************************************)
(* createURLSearchParams: a record of key -> list of values, kept in the   *)
(* order in which the keys were first appended.                            *)
(***************************************************************************)
createURLSearchParams == <<>>

HasKey(params, key) == \E i \in 1..Len(params) : params[i].key = key

append(params, key, value) ==
  IF HasKey(params, key)
  THEN [i \in 1..Len(params) |->
          IF params[i].key = key
          THEN [params[i] EXCEPT !.values = Append(@, value)]
          ELSE params[i]]
  ELSE Append(params, [key |-> key, values |-> <<value>>])

EncodeValue_EscapedCommas(value) == encodeURIComponent(value)

EncodeValue(value) == ReplaceEscapedCommas(encodeURIComponent(value))

RECURSIVE EntryPairs(_, _)
EntryPairs(key, values) ==
  IF values = <<>> THEN <<>>
  ELSE <<encodeURIComponent(key) \o <<"=">> \o EncodeValue(Head(values))>>
       \o EntryPairs(key, Tail(values))

RECURSIVE FlatMapPairs(_)
FlatMapPairs(params) ==
  IF params = <<>> THEN <<>>
  ELSE EntryPairs(Head(params).key, Head(params).values)
       \o FlatMapPairs(Tail(params))

RECURSIVE Join(_, _)
Join(parts, sep) ==
  IF parts = <<>> THEN <<>>
  ELSE IF Len(parts) = 1 THEN Head(parts)
  ELSE Head(parts) \o sep \o Join(Tail(parts), sep)

toString(params) == Join(FlatMapPairs(params), <<"&">>)

(***************************************************************************)
(* A path handed to request(): the endpoint (template text around an       *)
(* interpolated identifier) followed by "?" + query when the query string  *)
(* is not empty.                                                           *)
(***************************************************************************)
Endpoint(prefix, param, suffix) ==
  [prefix |-> prefix, param |-> param, suffix |-> suffix]

Static(path) == Endpoint(path, <<>>, "")

WithParam(endpoint, param) == [endpoint EXCEPT !.param = param]

WithQuery(endpoint, query) ==
  [sep |-> (query # <<>>), endpoint |-> endpoint, query |-> query]

(***************************************************************************)
(* SudojoClient.buildSolverUrl: params is an object, modelled as the       *)
(* sequence of its [key, value] properties in insertion order.             *)
(***************************************************************************)
ObjectKeys(params) == [i \in 1..Len(params) |-> params[i].key]

Lookup(params, key) ==
  params[CHOOSE i \in 1..Len(params) : params[i].key = key].value

RECURSIVE AppendSorted(_, _, _)
AppendSorted(searchParams, sortedKeys, params) ==
  IF sortedKeys = <<>> THEN searchParams
  ELSE AppendSorted(
         IF IsDefined(Lookup(params, Head(sortedKeys)))
         THEN append(searchParams, Head(sortedKeys),
                     String(Val(Lookup(params, Head(sortedKeys)))))
         ELSE searchParams,
         Tail(sortedKeys), params)

buildSolverUrl_InsertionOrder(endpoint, params) ==
  WithQuery(endpoint,
            toString(AppendSorted(createURLSearchParams, ObjectKeys(params), params)))

buildSolverUrl(endpoint, params) ==
  WithQuery(endpoint,
            toString(AppendSorted(createURLSearchParams,
                                   SortKeys(ObjectKeys(params)), params)))

(***************************************************************************)
(* Reading an emitted query string back: the pairs between "&", and the    *)
(* key and value of a pair around its first "=".                           *)
(***************************************************************************)
RECURSIVE SplitOn(_, _, _)
SplitOn(s, c, acc) ==
  IF s = <<>> THEN <<acc>>
  ELSE IF Head(s) = c THEN <<acc>> \o SplitOn(Tail(s), c, <<>>)
  ELSE SplitOn(Tail(s), c, Append(acc, Head(s)))

QueryPairs(query) == IF query = <<>> THEN <<>> ELSE SplitOn(query, "&", <<>>)

RECURSIVE IndexOf(_, _, _)
IndexOf(s, c, i) ==
  IF i > Len(s) THEN 0 ELSE IF s[i] = c THEN i ELSE IndexOf(s, c, i + 1)

PairKey(pair) ==
  IF IndexOf(pair, "=", 1) = 0 THEN pair
  ELSE SubSeq(pair, 1, IndexOf(pair, "=", 1) - 1)

PairValue(pair) ==
  IF IndexOf(pair, "=", 1) = 0 THEN <<>>
  ELSE SubSeq(pair, IndexOf(pair, "=", 1) + 1, Len(pair))

QueryKeys(query) == [i \in 1..Len(QueryPairs(query)) |-> PairKey(QueryPairs(query)[i])]

StrictlyAscending(keys) ==
  \A i \in 1..(Len(keys) - 1) : StringLess(keys[i], keys[i + 1])

(***************************************************************************)
(* createApiConfig: base URL, default headers and the endpoint table.      *)
(* Header values are tuples of their parts, so that "Bearer " + token      *)
(* keeps the token visible.                                                *)
(***************************************************************************)
DEFAULT_HEADERS ==
  ("Content-Type" :> <<"application/json">>) @@ ("Accept" :> <<"application/json">>)

ENDPOINTS ==
  [HEALTH |-> Static("/"),
   LEVELS |-> Static("/api/v1/levels"),
   TECHNIQUES |-> Static("/api/v1/techniques"),
   LEARNING |-> Static("/api/v1/learning"),
   BOARDS |-> Static("/api/v1/boards"),
   BOARDS_RANDOM |-> Static("/api/v1/boards/random"),
   DAILIES |-> Static("/api/v1/dailies"),
   DAILIES_RANDOM |-> Static("/api/v1/dailies/random"),
   DAILIES_TODAY |-> Static("/api/v1/dailies/today"),
   CHALLENGES |-> Static("/api/v1/challenges"),
   CHALLENGES_RANDOM |-> Static("/api/v1/challenges/random"),
   SOLVER_SOLVE |-> Static("/api/v1/solver/solve"),
   SOLVER_VALIDATE |-> Static("/api/v1/solver/validate"),
   SOLVER_GENERATE |-> Static("/api/v1/solver/generate"),
   PRACTICES |-> Static("/api/v1/practices"),
   PRACTICES_COUNTS |-> Static("/api/v1/practices/counts"),
   EXAMPLES |-> Static("/api/v1/examples"),
   EXAMPLES_COUNTS |-> Static("/api/v1/examples/counts"),
   BOARDS_COUNTS |-> Static("/api/v1/boards/counts"),
   PLAY_START |-> Static("/api/v1/play/start"),
   PLAY_FINISH |-> Static("/api/v1/play/finish"),
   GAMIFICATION_STATS |-> Static("/api/v1/gamification/stats"),
   GAMIFICATION_BADGES |-> Static("/api/v1/gamification/badges"),
   GAMIFICATION_HISTORY |-> Static("/api/v1/gamification/history"),
   LEVEL |-> Endpoint("/api/v1/levels/", <<>>, ""),
   TECHNIQUE |-> Endpoint("/api/v1/techniques/", <<>>, ""),
   LEARNING_ITEM |-> Endpoint("/api/v1/learning/", <<>>, ""),
   BOARD |-> Endpoint("/api/v1/boards/", <<>>, ""),
   DAILIES_DATE |-> Endpoint("/api/v1/dailies/date/", <<>>, ""),
   DAILY |-> Endpoint("/api/v1/dailies/", <<>>, ""),
   CHALLENGE |-> Endpoint("/api/v1/challenges/", <<>>, ""),
   USER_SUBSCRIPTIONS |-> Endpoint("/api/v1/users/", <<>>, "/subscriptions"),
   PRACTICE_RANDOM |-> Endpoint("/api/v1/practices/technique/", <<>>, "/random")]

(***************************************************************************)
(* Errors thrown by the client, and the error a failing transport throws.  *)
(***************************************************************************)
NoInfo == [hintLevel |-> 0, requiredEntitlement |-> "", userState |-> ""]

ValidationError(message, field, value) ==
  [value |-> value,
   message |-> message,
   field |-> field,
   name |-> "Error",
   info |-> NoInfo]

Error(message) == ValidationError(message, "", <<>>)

HintAccessDeniedError(data) ==
  [value |-> <<>>,
   message |-> data.message,
   field |-> "",
   name |-> "HintAccessDeniedError",
   info |-> [hintLevel |-> data.hintLevel,
             requiredEntitlement |-> data.requiredEntitlement,
             userState |-> data.userState]]

NetworkError ==
  [value |-> <<>>,
   message |-> "Network error",
   field |-> "",
   name |-> "NetworkError",
   info |-> NoInfo]

NoError == [value |-> <<>>, message |-> "", field |-> "", name |-> "", info |-> NoInfo]

(***************************************************************************)
(* Response envelopes of the transport.  A payload is a                    *)
(* BaseResponse-shaped object; its error member is null, a string or an    *)
(* object with a code.                                                     *)
(***************************************************************************)
Payloads ==
  LET NullError ==
        [code |-> "", t |-> "null", hintLevel |-> 0, requiredEntitlement |-> "",
         userState |-> "", message |-> ""]
      StringError(message) == [NullError EXCEPT !.t = "string", !.message = message]
      ObjectError(code, message, hintLevel, requiredEntitlement, userState) ==
        [code |-> code, t |-> "object", hintLevel |-> hintLevel,
         requiredEntitlement |-> requiredEntitlement, userState |-> userState,
         message |-> message]
  IN { [data |-> "result", error |-> NullError],
       [data |-> "null", error |-> NullError],
       [data |-> "null", error |-> StringError("Internal Server Error")],
       [data |-> "null",
        error |-> ObjectError("HINT_ACCESS_DENIED", "Hint level 2 requires red_belt",
                              2, "red_belt", "anonymous")],
       [data |-> "null",
        error |-> ObjectError("HINT_ACCESS_DENIED", "Hint level 3 requires black_belt",
                              3, "black_belt", "no_subscription")],
       [data |-> "null",
        error |-> ObjectError("PAYMENT_REQUIRED", "Payment required", 0, "", "")] }

Envelope(status, data) ==
  [data |-> data, status |-> status, ok |-> (status >= 200 /\ status <= 299)]

Envelopes ==
  { Envelope(status, data) :
      status \in {200, 402, 404, 500}, data \in {Undefined} \cup {Some(p) : p \in Payloads} }

(***************************************************************************)
(* SudojoClient.request up to the await: the request handed to the         *)
(* transport.                                                              *)
(***************************************************************************)
NoOptions ==
  [headers |-> Undefined,
   method |-> Undefined,
   body |-> Undefined,
   token |-> Undefined,
   timeout |-> Undefined]

Options(method, body, token, timeout) ==
  [NoOptions EXCEPT !.method = method, !.body = body, !.token = Some(token),
                    !.timeout = timeout]

JSONstringify(data) == <<"json", data>>

Bearer(token) == <<"Bearer ", token>>

MergeHeaders(defaults, overrides) ==
  IF IsDefined(overrides) THEN Val(overrides) @@ defaults ELSE defaults

RequestHeaders_AnyToken(options) ==
  IF IsDefined(options.token)
  THEN ("Authorization" :> Bearer(Val(options.token)))
       @@ MergeHeaders(headers, options.headers)
  ELSE MergeHeaders(headers, options.headers)

RequestHeaders(options) ==
  IF IsDefined(options.token) /\ Val(options.token) # ""
  THEN ("Authorization" :> Bearer(Val(options.token)))
       @@ MergeHeaders(headers, options.headers)
  ELSE MergeHeaders(headers, options.headers)

RequestMethod(options) ==
  IF IsDefined(options.method) THEN Val(options.method) ELSE "GET"

RequestBody(options) ==
  IF IsDefined(options.body) /\ options.method # Some("GET")
  THEN Some(JSONstringify(Val(options.body)))
  ELSE Undefined

RequestTimeout(options) ==
  IF IsDefined(options.timeout) /\ Val(options.timeout) # 0
  THEN options.timeout
  ELSE Undefined

request(path, options) ==
  [headers |-> RequestHeaders(options),
   method |-> RequestMethod(options),
   body |-> RequestBody(options),
   timeout |-> RequestTimeout(options),
   url |-> [path |-> path, base |-> baseUrl]]

(***************************************************************************)
(* SudojoClient.request after the await: unwrap the envelope.              *)
(***************************************************************************)
Resolved(value) == [value |-> Some(value), error |-> NoError, st |-> "resolved"]

Rejected(error) == [value |-> Undefined, error |-> error, st |-> "rejected"]

requestResult_AccessDenied(response) ==
  IF response.data = Undefined
  THEN Rejected(Error("No data received from server"))
  ELSE IF /\ response.status = 402
          /\ Val(response.data).error.t = "object"
          /\ Val(response.data).error.code = "HINT_ACCESS_DENIED"
  THEN Rejected(HintAccessDeniedError(Val(response.data).error))
  ELSE Resolved(Val(response.data))

requestResult_RejectsNullPayload(response) ==
  IF \/ response.data = Undefined
     \/ (Val(response.data).data = "null" /\ Val(response.data).error.t = "null")
  THEN Rejected(Error("No data received from server"))
  ELSE Resolved(Val(response.data))

requestResult_OkSkipsCheck(response) ==
  IF response.data = Undefined /\ ~response.ok
  THEN Rejected(Error("No data received from server"))
  ELSE [value |-> response.data, error |-> NoError, st |-> "resolved"]

requestResult(response) ==
  IF response.data = Undefined
  THEN Rejected(Error("No data received from server"))
  ELSE Resolved(Val(response.data))

(***************************************************************************)
(* SudojoClient.solverSolve after the await.                               *)
(***************************************************************************)
solverSolveResult_RaisesPayloadError(response) ==
  IF /\ response.status = 402
     /\ IsDefined(response.data)
     /\ Val(response.data).error.t = "object"
     /\ Val(response.data).error.code = "HINT_ACCESS_DENIED"
  THEN Rejected(HintAccessDeniedError(Val(response.data).error))
  ELSE IF ~response.ok \/ response.data = Undefined
  THEN Rejected(Error("Failed to get hints from solver"))
  ELSE IF Val(response.data).error.t = "string"
  THEN Rejected(Error("Failed to get hints from solver"))
  ELSE Resolved(Val(response.data))

solverSolveResult_GenericFirst(response) ==
  IF ~response.ok \/ response.data = Undefined
  THEN Rejected(Error("Failed to get hints from solver"))
  ELSE IF /\ response.status = 402
          /\ Val(response.data).error.t = "object"
          /\ Val(response.data).error.code = "HINT_ACCESS_DENIED"
  THEN Rejected(HintAccessDeniedError(Val(response.data).error))
  ELSE Resolved(Val(response.data))

solverSolveResult(response) ==
  IF /\ response.status = 402
     /\ IsDefined(response.data)
     /\ Val(response.data).error.t = "object"
     /\ Val(response.data).error.code = "HINT_ACCESS_DENIED"
  THEN Rejected(HintAccessDeniedError(Val(response.data).error))
  ELSE IF ~response.ok \/ response.data = Undefined
  THEN Rejected(Error("Failed to get hints from solver"))
  ELSE Resolved(Val(response.data))

(***************************************************************************)
(* Validators.                                                             *)
(***************************************************************************)
IsDigit(c) == CodeUnit(c) >= 48 /\ CodeUnit(c) <= 57

IsHexChar(c) ==
  \/ IsDigit(c)
  \/ (CodeUnit(c) >= 97 /\ CodeUnit(c) <= 102)
  \/ (CodeUnit(c) >= 65 /\ CodeUnit(c) <= 70)

isValidUUID_LowerCaseOnly(id) ==
  /\ Len(id) = 36
  /\ \A i \in 1..36 :
       IF i \in {9, 14, 19, 24} THEN id[i] = "-"
       ELSE IsDigit(id[i]) \/ (CodeUnit(id[i]) >= 97 /\ CodeUnit(id[i]) <= 102)

isValidUUID(id) ==
  /\ Len(id) = 36
  /\ \A i \in 1..36 :
       IF i \in {9, 14, 19, 24} THEN id[i] = "-" ELSE IsHexChar(id[i])

validateUUID(uuid, name) ==
  IF uuid = <<>> THEN ValidationError("${name} is required", name, <<>>)
  ELSE IF ~isValidUUID(uuid)
  THEN ValidationError(
         "Invalid ${name} format: \"${uuid}\". Expected UUID format (xxxxxxxx-xxxx-xxxx-xxxx-xxxxxxxxxxxx)",
         name, uuid)
  ELSE NoError

validateLevel(level) ==
  IF level < 1 \/ level > 12
  THEN ValidationError("Invalid level: ${level}. Expected 1-12", "level",
                       NumberToString(level))
  ELSE NoError

validateTechnique_Below37(technique) ==
  IF technique < 1 \/ technique >= 37
  THEN ValidationError("Invalid technique: ${technique}. Expected 1-37",
                       "technique", NumberToString(technique))
  ELSE NoError

validateTechnique(technique) ==
  IF technique < 1 \/ technique > 37
  THEN ValidationError("Invalid technique: ${technique}. Expected 1-37",
                       "technique", NumberToString(technique))
  ELSE NoError

isDateFormat_Unanchored(date) ==
  /\ Len(date) >= 10
  /\ \A i \in 1..10 :
       IF i \in {5, 8} THEN date[i] = "-" ELSE IsDigit(date[i])

isDateFormat(date) ==
  /\ Len(date) = 10
  /\ \A i \in 1..10 :
       IF i \in {5, 8} THEN date[i] = "-" ELSE IsDigit(date[i])

validateDate(date) ==
  IF ~isDateFormat(date)
  THEN ValidationError("Invalid date format: \"${date}\". Expected YYYY-MM-DD format",
                       "date", date)
  ELSE NoError

validateUserId_Below128(userId) ==
  IF userId = <<>> \/ Len(userId) = 0 \/ Len(userId) >= 128
  THEN ValidationError("Invalid userId: \"${userId}\". Expected 1-128 characters",
                       "userId", userId)
  ELSE NoError

validateUserId(userId) ==
  IF userId = <<>> \/ Len(userId) = 0 \/ Len(userId) > 128
  THEN ValidationError("Invalid userId: \"${userId}\". Expected 1-128 characters",
                       "userId", userId)
  ELSE NoError

(***************************************************************************)
(* The call in progress: which facade method was called, with which        *)
(* arguments, what was handed to the transport, what came back and how the *)
(* call settled.  The client keeps nothing of a call once its caller has   *)
(* taken the result.                                                       *)
(***************************************************************************)
NoArgs == [n |-> 0, params |-> <<>>, data |-> "", token |-> Undefined, id |-> <<>>]

Idle ==
  [value |-> Undefined,
   error |-> NoError,
   st |-> "idle",
   response |-> Undefined,
   op |-> "",
   args |-> NoArgs,
   req |-> Undefined,
   thrown |-> NoError]

NoCalls == [i \in 1..MaxCalls |-> Idle]

Throw(op, args, error) ==
  /\ promise.st = "idle"
  /\ promise' = [Idle EXCEPT !.st = "rejected", !.op = op, !.args = args,
                             !.error = error]
  /\ UNCHANGED <<baseUrl, headers, requestCount, bag, built, queries, mutation, calls>>

Send(op, args, req) ==
  /\ promise.st = "idle"
  /\ requestCount < MaxRequests
  /\ promise' = [Idle EXCEPT !.st = "pending", !.op = op, !.args = args,
                             !.req = Some(req)]
  /\ requestCount' = requestCount + 1
  /\ UNCHANGED <<baseUrl, headers, bag, built, queries, mutation, calls>>

Call_NoValidation(op, args, error, path, options) ==
  Send(op, args, request(path, options))

Call(op, args, error, path, options) ==
  IF error # NoError THEN Throw(op, args, error)
  ELSE Send(op, args, request(path, options))

Plain(endpoint) == WithQuery(endpoint, <<>>)

(***************************************************************************)
(* The transport settles the pending request: it returns an envelope, or   *)
(* it throws.                                                              *)
(***************************************************************************)
Settle(response) ==
  IF promise.op = "solverSolve" THEN solverSolveResult(response)
  ELSE requestResult(response)

TransportRespond ==
  \E response \in Envelopes :
    /\ promise.st = "pending"
    /\ promise' = [promise EXCEPT !.st = Settle(response).st,
                                  !.response = Some(response),
                                  !.value = Settle(response).value,
                                  !.error = Settle(response).error]
    /\ UNCHANGED <<baseUrl, headers, requestCount, bag, built, queries, mutation, calls>>

TransportThrow_Wrapped ==
  \E thrown \in {NetworkError, Error("Network error")} :
    /\ promise.st = "pending"
    /\ promise' = [promise EXCEPT !.st = "rejected",
                                  !.error = Error(thrown.message),
                                  !.thrown = thrown]
    /\ UNCHANGED <<baseUrl, headers, requestCount, bag, built, queries, mutation, calls>>

TransportThrow ==
  \E thrown \in {NetworkError, Error("Network error")} :
    /\ promise.st = "pending"
    /\ promise' = [promise EXCEPT !.st = "rejected", !.error = thrown,
                                  !.thrown = thrown]
    /\ UNCHANGED <<baseUrl, headers, requestCount, bag, built, queries, mutation, calls>>

Release ==
  /\ promise.st \in {"resolved", "rejected"}
  /\ promise' = Idle
  /\ UNCHANGED <<baseUrl, headers, requestCount, bag, built, queries, mutation, calls>>

(***************************************************************************)
(* Inputs of the facade calls.                                             *)
(***************************************************************************)
Tokens == {"", "token-a"}

Levels == {0, 1, 12, 13}

Techniques == {0, 1, 37, 38}

VALID_UUID == <<"1", "2", "3", "4", "5", "6", "7", "8", "-", "1", "2", "3", "4", "-", "1", "2", "3", "4", "-", "1", "2", "3", "4", "-", "1", "2", "3", "4", "5", "6", "7", "8", "9", "a", "b", "c">>

Uuids ==
  { <<>>, <<"1", "2", "3">>, <<"n", "o", "t", "-", "a", "-", "u", "u", "i", "d">>, VALID_UUID,
    <<"A", "B", "C", "D", "E", "F", "0", "1", "-", "1", "2", "3", "4", "-", "1", "2", "3", "4", "-", "1", "2", "3", "4", "-", "1", "2", "3", "4", "5", "6", "7", "8", "9", "A", "B", "C">>,
    <<"1", "2", "3", "4", "5", "6", "7", "g", "-", "1", "2", "3", "4", "-", "1", "2", "3", "4", "-", "1", "2", "3", "4", "-", "1", "2", "3", "4", "5", "6", "7", "8", "9", "a", "b", "c">>,
    VALID_UUID \o <<"0">>,
    <<"0">> \o VALID_UUID,
    <<"1", "2", "3", "4", "5", "6", "7", "8", "1", "-", "2", "3", "4", "-", "1", "2", "3", "4", "-", "1", "2", "3", "4", "-", "1", "2", "3", "4", "5", "6", "7", "8", "9", "a", "b", "c">> }

Dates ==
  { <<"2", "0", "2", "5", "-", "0", "1", "-", "1", "5">>,
    <<"2", "0", "2", "5", "-", "1", "3", "-", "4", "5">>,
    <<"0", "1", "-", "1", "5", "-", "2", "0", "2", "5">>,
    <<"2", "0", "2", "5", "/", "0", "1", "/", "1", "5">>,
    <<>>,
    <<"2", "0", "2", "5", "-", "0", "1", "-", "1", "5", "0">>,
    <<" ", "2", "0", "2", "5", "-", "0", "1", "-", "1", "5">>,
    <<"2", "0", "2", "5", "-", "0", "a", "-", "1", "5">>,
    <<"2", "0", "2", "5", "0", "-", "1", "-", "1", "5">> }

UserIds ==
  { <<>>, <<"a">>, <<"u", "s", "e", "r", "-", "1">>, <<"a", "/", "b">>,
    <<"a", "?", "b", "#", "c">>, [i \in 1..128 |-> "a"],
    [i \in 1..129 |-> "a"] }

Puzzles == { <<"0", "4", "0", "1">> }

RequestData == {"payload"}

Args(token, n, id, params, data) ==
  [n |-> n, params |-> params, data |-> data, token |-> Some(token), id |-> id]

Prop(key, value) == [key |-> key, value |-> value]

Field(params, key) ==
  IF \E i \in 1..Len(params) : params[i].key = key THEN Lookup(params, key)
  ELSE Undefined

OptionalNumbers == {Undefined, Some(Num(0)), Some(Num(3))}

OptionalFlags == {Undefined, Some(Num(1))}

OptionalStrings == {Undefined, Some(Str(<<>>)), Some(Str(<<"e", "n">>))}

OptionalBooleans == {Undefined, Some(Bool(TRUE)), Some(Bool(FALSE))}

OptionalLists == {Undefined, Some(Str(<<>>)), Some(Str(<<"1", ",", "2">>))}

(***************************************************************************)
(* The two ways the list methods add an optional filter: when it is not    *)
(* undefined, or when it is truthy.                                        *)
(***************************************************************************)
AppendIfDefined(params, key, value) ==
  IF IsDefined(value) THEN append(params, key, String(Val(value))) ELSE params

AppendIfTruthy(params, key, value) ==
  IF IsDefined(value) /\ Truthy(Val(value))
  THEN append(params, key, String(Val(value)))
  ELSE params

(***************************************************************************)
(* The platform URLSearchParams used by getPointHistory: set() replaces,   *)
(* toString() is the application/x-www-form-urlencoded serializer.         *)
(***************************************************************************)
URLSearchParamsSet(params, key, value) ==
  IF HasKey(params, key)
  THEN [i \in 1..Len(params) |->
          IF params[i].key = key THEN [params[i] EXCEPT !.values = <<value>>]
          ELSE params[i]]
  ELSE Append(params, [key |-> key, values |-> <<value>>])

IsFormSafe(c) ==
  \/ c \in {"*", "-", ".", "_"}
  \/ IsDigit(c)
  \/ (CodeUnit(c) >= 65 /\ CodeUnit(c) <= 90)
  \/ (CodeUnit(c) >= 97 /\ CodeUnit(c) <= 122)

RECURSIVE formUrlEncode(_)
formUrlEncode(s) ==
  IF s = <<>> THEN <<>>
  ELSE (IF IsFormSafe(Head(s)) THEN <<Head(s)>>
        ELSE IF Head(s) = " " THEN <<"+">>
        ELSE PercentEscape(Head(s)))
       \o formUrlEncode(Tail(s))

RECURSIVE FormPairs(_)
FormPairs(params) ==
  IF params = <<>> THEN <<>>
  ELSE <<formUrlEncode(Head(params).key) \o <<"=">>
         \o formUrlEncode(Head(params).values[1])>>
       \o FormPairs(Tail(params))

URLSearchParamsToString(params) == Join(FormPairs(params), <<"&">>)


(***************************************************************************)
(* Facade methods.  Each one validates, builds its path and hands the      *)
(* request to the transport.  Methods whose code differs only in the       *)
(* endpoint (and the name in the validation message) share an action.      *)
(***************************************************************************)
getPublic ==
  \E m \in { <<"getHealth", ENDPOINTS.HEALTH>>,
              <<"getBadgeDefinitions", ENDPOINTS.GAMIFICATION_BADGES>> } :
    Call(m[1], NoArgs, NoError, Plain(m[2]), NoOptions)

getWithToken ==
  \E token \in Tokens,
     m \in { <<"getLevels", ENDPOINTS.LEVELS>>,
             <<"getDailies", ENDPOINTS.DAILIES>>,
             <<"getRandomDaily", ENDPOINTS.DAILIES_RANDOM>>,
             <<"getTodayDaily", ENDPOINTS.DAILIES_TODAY>>,
             <<"getPracticeCounts", ENDPOINTS.PRACTICES_COUNTS>>,
             <<"getExampleCounts", ENDPOINTS.EXAMPLES_COUNTS>>,
             <<"getBoardCounts", ENDPOINTS.BOARDS_COUNTS>>,
             <<"getGamificationStats", ENDPOINTS.GAMIFICATION_STATS>> } :
    Call(m[1], Args(token, 0, <<>>, <<>>, ""), NoError, Plain(m[2]),
         Options(Undefined, Undefined, token, Undefined))

create ==
  \E token \in Tokens, data \in RequestData,
     m \in { <<"createLevel", ENDPOINTS.LEVELS>>,
             <<"createTechnique", ENDPOINTS.TECHNIQUES>>,
             <<"createLearning", ENDPOINTS.LEARNING>>,
             <<"createBoard", ENDPOINTS.BOARDS>>,
             <<"createDaily", ENDPOINTS.DAILIES>>,
             <<"createChallenge", ENDPOINTS.CHALLENGES>>,
             <<"createPractice", ENDPOINTS.PRACTICES>>,
             <<"createExample", ENDPOINTS.EXAMPLES>>,
             <<"playStart", ENDPOINTS.PLAY_START>>,
             <<"playFinish", ENDPOINTS.PLAY_FINISH>> } :
    Call(m[1], Args(token, 0, <<>>, <<>>, data), NoError, Plain(m[2]),
         Options(Some("POST"), Some(data), token, Undefined))

getLevel ==
  \E token \in Tokens, level \in Levels :
    Call("getLevel", Args(token, level, <<>>, <<>>, ""), validateLevel(level),
         Plain(WithParam(ENDPOINTS.LEVEL, NumberToString(level))),
         Options(Undefined, Undefined, token, Undefined))

updateLevel ==
  \E token \in Tokens, level \in Levels, data \in RequestData :
    Call("updateLevel", Args(token, level, <<>>, <<>>, data), validateLevel(level),
         Plain(WithParam(ENDPOINTS.LEVEL, NumberToString(level))),
         Options(Some("PUT"), Some(data), token, Undefined))

deleteLevel ==
  \E token \in Tokens, level \in Levels :
    Call("deleteLevel", Args(token, level, <<>>, <<>>, ""), validateLevel(level),
         Plain(WithParam(ENDPOINTS.LEVEL, NumberToString(level))),
         Options(Some("DELETE"), Undefined, token, Undefined))

getTechnique ==
  \E token \in Tokens, technique \in Techniques :
    Call("getTechnique", Args(token, technique, <<>>, <<>>, ""),
         validateTechnique(technique),
         Plain(WithParam(ENDPOINTS.TECHNIQUE, NumberToString(technique))),
         Options(Undefined, Undefined, token, Undefined))

updateTechnique ==
  \E token \in Tokens, technique \in Techniques, data \in RequestData :
    Call("updateTechnique", Args(token, technique, <<>>, <<>>, data),
         validateTechnique(technique),
         Plain(WithParam(ENDPOINTS.TECHNIQUE, NumberToString(technique))),
         Options(Some("PUT"), Some(data), token, Undefined))

deleteTechnique ==
  \E token \in Tokens, technique \in Techniques :
    Call("deleteTechnique", Args(token, technique, <<>>, <<>>, ""),
         validateTechnique(technique),
         Plain(WithParam(ENDPOINTS.TECHNIQUE, NumberToString(technique))),
         Options(Some("DELETE"), Undefined, token, Undefined))

getRandomPractice ==
  \E token \in Tokens, technique \in Techniques :
    Call("getRandomPractice", Args(token, technique, <<>>, <<>>, ""),
         validateTechnique(technique),
         Plain(WithParam(ENDPOINTS.PRACTICE_RANDOM, NumberToString(technique))),
         Options(Undefined, Undefined, token, Undefined))

UuidResources ==
  { [endpoint |-> ENDPOINTS.LEARNING_ITEM,
     name |-> "Learning UUID",
     get |-> "getLearningItem",
     update |-> "updateLearning",
     delete |-> "deleteLearning"],
    [endpoint |-> ENDPOINTS.BOARD,
     name |-> "Board UUID",
     get |-> "getBoard",
     update |-> "updateBoard",
     delete |-> "deleteBoard"],
    [endpoint |-> ENDPOINTS.DAILY,
     name |-> "Daily UUID",
     get |-> "getDaily",
     update |-> "updateDaily",
     delete |-> "deleteDaily"],
    [endpoint |-> ENDPOINTS.CHALLENGE,
     name |-> "Challenge UUID",
     get |-> "getChallenge",
     update |-> "updateChallenge",
     delete |-> "deleteChallenge"] }

getByUuid ==
  \E resource \in UuidResources, token \in Tokens, uuid \in Uuids :
    Call(resource.get, Args(token, 0, uuid, <<>>, ""),
         validateUUID(uuid, resource.name), Plain(WithParam(resource.endpoint, uuid)),
         Options(Undefined, Undefined, token, Undefined))

updateByUuid ==
  \E resource \in UuidResources, token \in Tokens, uuid \in Uuids,
     data \in RequestData :
    Call(resource.update, Args(token, 0, uuid, <<>>, data),
         validateUUID(uuid, resource.name), Plain(WithParam(resource.endpoint, uuid)),
         Options(Some("PUT"), Some(data), token, Undefined))

deleteByUuid ==
  \E resource \in UuidResources, token \in Tokens, uuid \in Uuids :
    Call(resource.delete, Args(token, 0, uuid, <<>>, ""),
         validateUUID(uuid, resource.name), Plain(WithParam(resource.endpoint, uuid)),
         Options(Some("DELETE"), Undefined, token, Undefined))

getDailyByDate ==
  \E token \in Tokens, date \in Dates :
    Call("getDailyByDate", Args(token, 0, date, <<>>, ""), validateDate(date),
         Plain(WithParam(ENDPOINTS.DAILIES_DATE, date)),
         Options(Undefined, Undefined, token, Undefined))

getUserSubscription ==
  \E token \in Tokens, userId \in UserIds :
    Call("getUserSubscription", Args(token, 0, userId, <<>>, ""),
         validateUserId(userId), Plain(WithParam(ENDPOINTS.USER_SUBSCRIPTIONS, userId)),
         Options(Undefined, Undefined, token, Undefined))

deleteAllPractices ==
  \E token \in Tokens :
    Call("deleteAllPractices", Args(token, 0, <<>>, <<>>, ""), NoError,
         [sep |-> TRUE,
          endpoint |-> ENDPOINTS.PRACTICES,
          query |-> <<"c", "o", "n", "f", "i", "r", "m", "=", "t", "r", "u", "e">>],
         Options(Some("DELETE"), Undefined, token, Undefined))

(***************************************************************************)
(* List methods with optional filters.  queryParams is the object of the   *)
(* filters; the path is built as the method builds it.                     *)
(***************************************************************************)
ListCall(op, token, queryParams, path) ==
  Call(op, Args(token, 0, <<>>, queryParams, ""), NoError, path,
       Options(Undefined, Undefined, token, Undefined))

SingleFilterPath(endpoint, key, queryParams) ==
  WithQuery(endpoint,
    toString(AppendIfDefined(createURLSearchParams, key, Field(queryParams, key))))

getTechniques ==
  \E token \in Tokens, level \in OptionalNumbers :
    ListCall("getTechniques", token, <<Prop(Key.level, level)>>,
             SingleFilterPath(ENDPOINTS.TECHNIQUES, Key.level,
                              <<Prop(Key.level, level)>>))

getRandomBoard ==
  \E token \in Tokens, level \in OptionalNumbers :
    ListCall("getRandomBoard", token, <<Prop(Key.level, level)>>,
             SingleFilterPath(ENDPOINTS.BOARDS_RANDOM, Key.level,
                              <<Prop(Key.level, level)>>))

getExamples ==
  \E token \in Tokens, technique \in OptionalNumbers :
    ListCall("getExamples", token, <<Prop(Key.technique, technique)>>,
             SingleFilterPath(ENDPOINTS.EXAMPLES, Key.technique,
                              <<Prop(Key.technique, technique)>>))

getLearningPath(queryParams) ==
  WithQuery(ENDPOINTS.LEARNING,
    toString(AppendIfTruthy(
               AppendIfDefined(createURLSearchParams, Key.technique,
                               Field(queryParams, Key.technique)),
               Key.language_code, Field(queryParams, Key.language_code))))

getLearning ==
  \E token \in Tokens, technique \in OptionalNumbers, language_code \in OptionalStrings :
    ListCall("getLearning", token,
             <<Prop(Key.technique, technique), Prop(Key.language_code, language_code)>>,
             getLearningPath(<<Prop(Key.technique, technique),
                               Prop(Key.language_code, language_code)>>))

BoardQuery(level, limit, offset, techniques, technique_bit) ==
  <<Prop(Key.level, level), Prop(Key.limit, limit), Prop(Key.offset, offset),
    Prop(Key.techniques, techniques), Prop(Key.technique_bit, technique_bit)>>

getBoardsPath_BitFirst(queryParams) ==
  WithQuery(ENDPOINTS.BOARDS,
    toString(
      AppendIfDefined(
        AppendIfDefined(
          AppendIfDefined(
            AppendIfDefined(
              AppendIfDefined(createURLSearchParams, Key.level,
                              Field(queryParams, Key.level)),
              Key.limit, Field(queryParams, Key.limit)),
            Key.offset, Field(queryParams, Key.offset)),
          Key.technique_bit, Field(queryParams, Key.technique_bit)),
        Key.techniques, Field(queryParams, Key.techniques))))

getBoardsPath(queryParams) ==
  WithQuery(ENDPOINTS.BOARDS,
    toString(
      AppendIfDefined(
        AppendIfDefined(
          AppendIfDefined(
            AppendIfDefined(
              AppendIfDefined(createURLSearchParams, Key.level,
                              Field(queryParams, Key.level)),
              Key.limit, Field(queryParams, Key.limit)),
            Key.offset, Field(queryParams, Key.offset)),
          Key.techniques, Field(queryParams, Key.techniques)),
        Key.technique_bit, Field(queryParams, Key.technique_bit))))

getBoards ==
  \E token \in Tokens, level \in OptionalFlags, limit \in OptionalFlags,
     offset \in OptionalFlags, techniques \in OptionalFlags,
     technique_bit \in OptionalFlags :
    ListCall("getBoards", token,
             BoardQuery(level, limit, offset, techniques, technique_bit),
             getBoardsPath(BoardQuery(level, limit, offset, techniques,
                                      technique_bit)))

ChallengeQuery(level, difficulty) ==
  <<Prop(Key.level, level), Prop(Key.difficulty, difficulty)>>

ChallengePath(endpoint, queryParams) ==
  WithQuery(endpoint,
    toString(AppendIfTruthy(
               AppendIfDefined(createURLSearchParams, Key.level,
                               Field(queryParams, Key.level)),
               Key.difficulty, Field(queryParams, Key.difficulty))))

getChallenges ==
  \E token \in Tokens, level \in OptionalNumbers, difficulty \in OptionalStrings :
    ListCall("getChallenges", token, ChallengeQuery(level, difficulty),
             ChallengePath(ENDPOINTS.CHALLENGES, ChallengeQuery(level, difficulty)))

getRandomChallenge ==
  \E token \in Tokens, level \in OptionalNumbers, difficulty \in OptionalStrings :
    ListCall("getRandomChallenge", token, ChallengeQuery(level, difficulty),
             ChallengePath(ENDPOINTS.CHALLENGES_RANDOM,
                           ChallengeQuery(level, difficulty)))

HistoryQuery(limit, offset) == <<Prop(Key.limit, limit), Prop(Key.offset, offset)>>

SetIfTruthy(params, key, value) ==
  IF IsDefined(value) /\ Truthy(Val(value))
  THEN URLSearchParamsSet(params, key, String(Val(value)))
  ELSE params

getPointHistoryPath(options) ==
  IF URLSearchParamsToString(
       SetIfTruthy(SetIfTruthy(<<>>, Key.limit, Field(options, Key.limit)),
                   Key.offset, Field(options, Key.offset))) # <<>>
  THEN [sep |-> TRUE,
        endpoint |-> ENDPOINTS.GAMIFICATION_HISTORY,
        query |-> URLSearchParamsToString(
                    SetIfTruthy(SetIfTruthy(<<>>, Key.limit, Field(options, Key.limit)),
                                Key.offset, Field(options, Key.offset)))]
  ELSE Plain(ENDPOINTS.GAMIFICATION_HISTORY)

getPointHistory ==
  \E token \in Tokens, limit \in OptionalNumbers, offset \in OptionalNumbers :
    ListCall("getPointHistory", token, HistoryQuery(limit, offset),
             getPointHistoryPath(HistoryQuery(limit, offset)))

(***************************************************************************)
(* The query-key factories of the hooks (hooks/query-keys.ts and           *)
(* solver/hooks/query-keys.ts).  A key is an array; each element is a      *)
(* string or a number, or the filter object handed to the factory, or      *)
(* undefined when the optional filter argument was left out.  An object is *)
(* the sequence of its properties in insertion order.                      *)
(***************************************************************************)
Segment ==
  [techniques |-> <<"t", "e", "c", "h", "n", "i", "q", "u", "e", "s">>,
   date |-> <<"d", "a", "t", "e">>,
   sudojo |-> <<"s", "u", "d", "o", "j", "o">>,
   health |-> <<"h", "e", "a", "l", "t", "h">>,
   levels |-> <<"l", "e", "v", "e", "l", "s">>,
   learning |-> <<"l", "e", "a", "r", "n", "i", "n", "g">>,
   boards |-> <<"b", "o", "a", "r", "d", "s">>,
   random |-> <<"r", "a", "n", "d", "o", "m">>,
   dailies |-> <<"d", "a", "i", "l", "i", "e", "s">>,
   today |-> <<"t", "o", "d", "a", "y">>,
   challenges |-> <<"c", "h", "a", "l", "l", "e", "n", "g", "e", "s">>,
   users |-> <<"u", "s", "e", "r", "s">>,
   subscription |-> <<"s", "u", "b", "s", "c", "r", "i", "p", "t", "i", "o", "n">>,
   practices |-> <<"p", "r", "a", "c", "t", "i", "c", "e", "s">>,
   counts |-> <<"c", "o", "u", "n", "t", "s">>,
   gamification |-> <<"g", "a", "m", "i", "f", "i", "c", "a", "t", "i", "o", "n">>,
   stats |-> <<"s", "t", "a", "t", "s">>,
   badges |-> <<"b", "a", "d", "g", "e", "s">>,
   history |-> <<"h", "i", "s", "t", "o", "r", "y">>,
   solver |-> <<"s", "o", "l", "v", "e", "r">>,
   solve |-> <<"s", "o", "l", "v", "e">>,
   validate |-> <<"v", "a", "l", "i", "d", "a", "t", "e">>,
   generate |-> <<"g", "e", "n", "e", "r", "a", "t", "e">>]

ScalarPart(v) == [scalar |-> Some(v), object |-> Undefined]

ObjectPart(filters) == [scalar |-> Undefined, object |-> filters]

queryKeys_WithoutFilters(name, arg) ==
  LET S(segment) == ScalarPart(Str(segment))
      sudojoBase == <<S(Segment.sudojo)>>
  IN CASE name = "all" -> sudojoBase
       [] name = "health" -> sudojoBase \o <<S(Segment.health)>>
       [] name = "levels" -> sudojoBase \o <<S(Segment.levels)>>
       [] name = "level" -> sudojoBase \o <<S(Segment.levels), ScalarPart(arg)>>
       [] name = "techniques" -> sudojoBase \o <<S(Segment.techniques)>>
       [] name = "technique" -> sudojoBase \o <<S(Segment.techniques), ScalarPart(arg)>>
       [] name = "learning" -> sudojoBase \o <<S(Segment.learning)>>
       [] name = "learningItem" -> sudojoBase \o <<S(Segment.learning), ScalarPart(arg)>>
       [] name = "boards" -> sudojoBase \o <<S(Segment.boards)>>
       [] name = "boardRandom" ->
            sudojoBase \o <<S(Segment.boards), S(Segment.random)>>
       [] name = "board" -> sudojoBase \o <<S(Segment.boards), ScalarPart(arg)>>
       [] name = "dailies" -> sudojoBase \o <<S(Segment.dailies)>>
       [] name = "dailyRandom" -> sudojoBase \o <<S(Segment.dailies), S(Segment.random)>>
       [] name = "dailyToday" -> sudojoBase \o <<S(Segment.dailies), S(Segment.today)>>
       [] name = "dailyByDate" ->
            sudojoBase \o <<S(Segment.dailies), S(Segment.date), ScalarPart(arg)>>
       [] name = "daily" -> sudojoBase \o <<S(Segment.dailies), ScalarPart(arg)>>
       [] name = "challenges" -> sudojoBase \o <<S(Segment.challenges)>>
       [] name = "challengeRandom" ->
            sudojoBase \o <<S(Segment.challenges), S(Segment.random)>>
       [] name = "challenge" -> sudojoBase \o <<S(Segment.challenges), ScalarPart(arg)>>
       [] name = "userSubscription" ->
            sudojoBase \o <<S(Segment.users), ScalarPart(arg), S(Segment.subscription)>>
       [] name = "practiceCounts" ->
            sudojoBase \o <<S(Segment.practices), S(Segment.counts)>>
       [] name = "practiceRandom" ->
            sudojoBase \o <<S(Segment.practices), S(Segment.random), ScalarPart(arg)>>
       [] name = "gamificationStats" ->
            sudojoBase \o <<S(Segment.gamification), S(Segment.stats)>>
       [] name = "gamificationBadges" ->
            sudojoBase \o <<S(Segment.gamification), S(Segment.badges)>>
       [] name = "gamificationHistory" ->
            sudojoBase \o <<S(Segment.gamification), S(Segment.history)>>

queryKeys(name, arg) ==
  LET S(segment) == ScalarPart(Str(segment))
      sudojoBase == <<S(Segment.sudojo)>>
  IN CASE name = "all" -> sudojoBase
       [] name = "health" -> sudojoBase \o <<S(Segment.health)>>
       [] name = "levels" -> sudojoBase \o <<S(Segment.levels)>>
       [] name = "level" -> sudojoBase \o <<S(Segment.levels), ScalarPart(arg)>>
       [] name = "techniques" -> sudojoBase \o <<S(Segment.techniques), ObjectPart(arg)>>
       [] name = "technique" -> sudojoBase \o <<S(Segment.techniques), ScalarPart(arg)>>
       [] name = "learning" -> sudojoBase \o <<S(Segment.learning), ObjectPart(arg)>>
       [] name = "learningItem" -> sudojoBase \o <<S(Segment.learning), ScalarPart(arg)>>
       [] name = "boards" -> sudojoBase \o <<S(Segment.boards), ObjectPart(arg)>>
       [] name = "boardRandom" ->
            sudojoBase \o <<S(Segment.boards), S(Segment.random), ObjectPart(arg)>>
       [] name = "board" -> sudojoBase \o <<S(Segment.boards), ScalarPart(arg)>>
       [] name = "dailies" -> sudojoBase \o <<S(Segment.dailies)>>
       [] name = "dailyRandom" -> sudojoBase \o <<S(Segment.dailies), S(Segment.random)>>
       [] name = "dailyToday" -> sudojoBase \o <<S(Segment.dailies), S(Segment.today)>>
       [] name = "dailyByDate" ->
            sudojoBase \o <<S(Segment.dailies), S(Segment.date), ScalarPart(arg)>>
       [] name = "daily" -> sudojoBase \o <<S(Segment.dailies), ScalarPart(arg)>>
       [] name = "challenges" -> sudojoBase \o <<S(Segment.challenges), ObjectPart(arg)>>
       [] name = "challengeRandom" ->
            sudojoBase \o <<S(Segment.challenges), S(Segment.random), ObjectPart(arg)>>
       [] name = "challenge" -> sudojoBase \o <<S(Segment.challenges), ScalarPart(arg)>>
       [] name = "userSubscription" ->
            sudojoBase \o <<S(Segment.users), ScalarPart(arg), S(Segment.subscription)>>
       [] name = "practiceCounts" ->
            sudojoBase \o <<S(Segment.practices), S(Segment.counts)>>
       [] name = "practiceRandom" ->
            sudojoBase \o <<S(Segment.practices), S(Segment.random), ScalarPart(arg)>>
       [] name = "gamificationStats" ->
            sudojoBase \o <<S(Segment.gamification), S(Segment.stats)>>
       [] name = "gamificationBadges" ->
            sudojoBase \o <<S(Segment.gamification), S(Segment.badges)>>
       [] name = "gamificationHistory" ->
            sudojoBase \o <<S(Segment.gamification), S(Segment.history), ObjectPart(arg)>>

solverQueryKeys(name, arg) ==
  LET S(segment) == ScalarPart(Str(segment))
      solverBase == <<S(Segment.sudojo), S(Segment.solver)>>
  IN CASE name = "all" -> solverBase
       [] name = "solve" -> solverBase \o <<S(Segment.solve), ObjectPart(arg)>>
       [] name = "validate" -> solverBase \o <<S(Segment.validate), ScalarPart(arg)>>
       [] name = "generate" -> solverBase \o <<S(Segment.generate), ObjectPart(arg)>>

(***************************************************************************)
(* Two renders of a query hook with the same factory: the filter objects   *)
(* of both renders and, once the hook has run, the two query keys.         *)
(***************************************************************************)
NoQueries == [filters |-> <<>>, keys |-> <<>>, name |-> "", cache |-> {}]

FilterArgs(name) ==
  LET FilterKeys ==
        CASE name \in {"techniques", "boards", "boardRandom"} -> {Key.level}
          [] name = "learning" -> {Key.technique, Key.language_code}
          [] name \in {"challenges", "challengeRandom"} -> {Key.level, Key.difficulty}
          [] name = "gamificationHistory" -> {Key.limit, Key.offset}
          [] name = "solve" -> {Key.original, Key.user, Key.pencilmarks}
          [] name = "generate" -> {Key.symmetrical}
      FilterValues(key) ==
        CASE key \in {Key.level, Key.technique, Key.limit, Key.offset} -> OptionalNumbers
          [] key \in {Key.language_code, Key.difficulty} -> OptionalStrings
          [] key \in {Key.original, Key.user, Key.pencilmarks} ->
               {Some(Str(<<"0", "4", "0", "1">>)), Some(Str(<<"0", "4", "2", "1">>))}
          [] key = Key.symmetrical -> OptionalBooleans
      RECURSIVE FilterObjects(_)
      FilterObjects(keys) ==
        {<<>>} \cup
        UNION {{<<Prop(key, value)>> \o rest :
                  value \in FilterValues(key), rest \in FilterObjects(keys \ {key})} :
               key \in keys}
  IN {Undefined} \cup {Some(o) : o \in FilterObjects(FilterKeys)}

FilterFactories ==
  {"techniques", "learning", "boards", "boardRandom", "challenges", "challengeRandom",
   "gamificationHistory", "solve", "generate"}

useQuery ==
  LET queryKey(filters) ==
        IF queries.name \in {"solve", "generate"}
        THEN solverQueryKeys(queries.name, filters)
        ELSE queryKeys(queries.name, filters)
  IN /\ queries.keys = <<>>
     /\ queries' = [queries EXCEPT !.keys = <<queryKey(queries.filters[1]),
                                             queryKey(queries.filters[2])>>]
     /\ UNCHANGED <<baseUrl, headers, promise, requestCount, bag, built, mutation, calls>>


(***************************************************************************)
(* The query hooks (useQuery): a render of a hook registers its query with *)
(* the query client under the key of its factory, with the staleTime of    *)
(* the hook unless the options of the caller, spread after it, carry one.  *)
(***************************************************************************)
STALE_TIMES ==
  [LEVELS |-> 10 * 60 * 1000,
   TECHNIQUES |-> 10 * 60 * 1000,
   LEARNING |-> 10 * 60 * 1000,
   BOARDS |-> 5 * 60 * 1000,
   DAILIES |-> 5 * 60 * 1000,
   CHALLENGES |-> 5 * 60 * 1000,
   HEALTH_STATUS |-> 1 * 60 * 1000,
   USER_SUBSCRIPTION |-> 2 * 60 * 1000]

QueryHooks_RandomDailyCached ==
  LET QueryHook(name, factory, staleTime) ==
        [name |-> name, factory |-> factory, staleTime |-> staleTime]
  IN
  {QueryHook("useSudojoHealth", "health", STALE_TIMES.HEALTH_STATUS),
   QueryHook("useSudojoLevels", "levels", STALE_TIMES.LEVELS),
   QueryHook("useSudojoLevel", "level", STALE_TIMES.LEVELS),
   QueryHook("useSudojoTechniques", "techniques", STALE_TIMES.TECHNIQUES),
   QueryHook("useSudojoTechnique", "technique", STALE_TIMES.TECHNIQUES),
   QueryHook("useSudojoLearning", "learning", STALE_TIMES.LEARNING),
   QueryHook("useSudojoLearningItem", "learningItem", STALE_TIMES.LEARNING),
   QueryHook("useSudojoBoards", "boards", STALE_TIMES.BOARDS),
   QueryHook("useSudojoRandomBoard", "boardRandom", 0),
   QueryHook("useSudojoBoard", "board", STALE_TIMES.BOARDS),
   QueryHook("useSudojoDailies", "dailies", STALE_TIMES.DAILIES),
   QueryHook("useSudojoRandomDaily", "dailyRandom", STALE_TIMES.DAILIES),
   QueryHook("useSudojoTodayDaily", "dailyToday", STALE_TIMES.DAILIES),
   QueryHook("useSudojoDailyByDate", "dailyByDate", STALE_TIMES.DAILIES),
   QueryHook("useSudojoDaily", "daily", STALE_TIMES.DAILIES),
   QueryHook("useSudojoChallenges", "challenges", STALE_TIMES.CHALLENGES),
   QueryHook("useSudojoRandomChallenge", "challengeRandom", 0),
   QueryHook("useSudojoChallenge", "challenge", STALE_TIMES.CHALLENGES),
   QueryHook("useSudojoUserSubscription", "userSubscription",
             STALE_TIMES.USER_SUBSCRIPTION),
   QueryHook("useSudojoPracticeCounts", "practiceCounts", 0),
   QueryHook("useSudojoRandomPractice", "practiceRandom", 0),
   QueryHook("useSudojoGamificationStats", "gamificationStats",
             STALE_TIMES.USER_SUBSCRIPTION),
   QueryHook("useSudojoBadgeDefinitions", "gamificationBadges", STALE_TIMES.LEVELS),
   QueryHook("useSudojoPointHistory", "gamificationHistory", 0)}

QueryHooks ==
  LET QueryHook(name, factory, staleTime) ==
        [name |-> name, factory |-> factory, staleTime |-> staleTime]
  IN
  {QueryHook("useSudojoHealth", "health", STALE_TIMES.HEALTH_STATUS),
   QueryHook("useSudojoLevels", "levels", STALE_TIMES.LEVELS),
   QueryHook("useSudojoLevel", "level", STALE_TIMES.LEVELS),
   QueryHook("useSudojoTechniques", "techniques", STALE_TIMES.TECHNIQUES),
   QueryHook("useSudojoTechnique", "technique", STALE_TIMES.TECHNIQUES),
   QueryHook("useSudojoLearning", "learning", STALE_TIMES.LEARNING),
   QueryHook("useSudojoLearningItem", "learningItem", STALE_TIMES.LEARNING),
   QueryHook("useSudojoBoards", "boards", STALE_TIMES.BOARDS),
   QueryHook("useSudojoRandomBoard", "boardRandom", 0),
   QueryHook("useSudojoBoard", "board", STALE_TIMES.BOARDS),
   QueryHook("useSudojoDailies", "dailies", STALE_TIMES.DAILIES),
   QueryHook("useSudojoRandomDaily", "dailyRandom", 0),
   QueryHook("useSudojoTodayDaily", "dailyToday", STALE_TIMES.DAILIES),
   QueryHook("useSudojoDailyByDate", "dailyByDate", STALE_TIMES.DAILIES),
   QueryHook("useSudojoDaily", "daily", STALE_TIMES.DAILIES),
   QueryHook("useSudojoChallenges", "challenges", STALE_TIMES.CHALLENGES),
   QueryHook("useSudojoRandomChallenge", "challengeRandom", 0),
   QueryHook("useSudojoChallenge", "challenge", STALE_TIMES.CHALLENGES),
   QueryHook("useSudojoUserSubscription", "userSubscription",
             STALE_TIMES.USER_SUBSCRIPTION),
   QueryHook("useSudojoPracticeCounts", "practiceCounts", 0),
   QueryHook("useSudojoRandomPractice", "practiceRandom", 0),
   QueryHook("useSudojoGamificationStats", "gamificationStats",
             STALE_TIMES.USER_SUBSCRIPTION),
   QueryHook("useSudojoBadgeDefinitions", "gamificationBadges", STALE_TIMES.LEVELS),
   QueryHook("useSudojoPointHistory", "gamificationHistory", 0)}

(***************************************************************************)
(* The argument a hook hands to its key factory, as an element of a key:   *)
(* nothing, a number, a string, or the filter object the hook builds (here *)
(* with at most one property).                                             *)
(***************************************************************************)
QueryArgs(factory) ==
  CASE factory \in {"health", "levels", "dailies", "dailyRandom", "dailyToday",
                    "practiceCounts", "gamificationStats", "gamificationBadges"} ->
         {ObjectPart(Undefined)}
    [] factory \in {"level", "technique", "practiceRandom"} ->
         {ScalarPart(Num(1)), ScalarPart(Num(3))}
    [] factory \in {"learningItem", "board", "challenge", "userSubscription"} ->
         {ScalarPart(Str(VALID_UUID)), ScalarPart(Str(Segment.random))}
    [] factory = "daily" ->
         {ScalarPart(Str(VALID_UUID)), ScalarPart(Str(Segment.random)),
          ScalarPart(Str(Segment.today))}
    [] factory = "dailyByDate" ->
         {ScalarPart(Str(<<"2", "0", "2", "5", "-", "0", "1", "-", "1", "5">>)),
          ScalarPart(Str(Segment.random))}
    [] factory \in FilterFactories ->
         {ObjectPart(filters) :
            filters \in {a \in FilterArgs(factory) :
                           /\ IsDefined(a)
                           /\ Len(Val(a)) <= 1
                           /\ \A i \in 1..Len(Val(a)) : IsDefined(Val(a)[i].value)}}

QueryOptions == {[staleTime |-> t] : t \in {Undefined, Some(1000)}}

useQueryHook ==
  \E hook \in QueryHooks :
    \E arg \in QueryArgs(hook.factory), options \in QueryOptions :
      /\ Cardinality(queries.cache) < MaxQueries
      /\ queries' =
           [queries EXCEPT
              !.cache = @ \cup
                {[arg |-> arg,
                  queryKey |-> queryKeys(hook.factory,
                                         IF IsDefined(arg.scalar) THEN Val(arg.scalar)
                                         ELSE arg.object),
                  factory |-> hook.factory,
                  staleTime |-> IF IsDefined(options.staleTime)
                                THEN Val(options.staleTime)
                                ELSE hook.staleTime,
                  hook |-> hook.name]}]
      /\ UNCHANGED <<baseUrl, headers, promise, requestCount, bag, built, mutation, calls>>

(***************************************************************************)
(* The mutation hooks (useMutation): mutate() runs the facade call of the  *)
(* hook; when that call resolves, onSuccess hands query keys to the query  *)
(* client (invalidateQueries, removeQueries); when it rejects nothing is   *)
(* invalidated.  hook.family is the segment of the resource family and     *)
(* hook.item the factory of the item key.                                  *)
(***************************************************************************)
MutationHooks ==
  LET MutationHook(name, kind, family, item) ==
        [name |-> name, kind |-> kind, family |-> family, item |-> item]
  IN
  {MutationHook("useSudojoCreateLevel", "create", Segment.levels, "level"),
   MutationHook("useSudojoUpdateLevel", "update", Segment.levels, "level"),
   MutationHook("useSudojoDeleteLevel", "delete", Segment.levels, "level"),
   MutationHook("useSudojoCreateTechnique", "create", Segment.techniques, "technique"),
   MutationHook("useSudojoUpdateTechnique", "update", Segment.techniques, "technique"),
   MutationHook("useSudojoDeleteTechnique", "delete", Segment.techniques, "technique"),
   MutationHook("useSudojoCreateBoard", "create", Segment.boards, "board"),
   MutationHook("useSudojoUpdateBoard", "update", Segment.boards, "board"),
   MutationHook("useSudojoDeleteBoard", "delete", Segment.boards, "board"),
   MutationHook("useSudojoCreateDaily", "create", Segment.dailies, "daily"),
   MutationHook("useSudojoUpdateDaily", "update", Segment.dailies, "daily"),
   MutationHook("useSudojoDeleteDaily", "delete", Segment.dailies, "daily"),
   MutationHook("useSudojoCreateChallenge", "create", Segment.challenges, "challenge"),
   MutationHook("useSudojoUpdateChallenge", "update", Segment.challenges, "challenge"),
   MutationHook("useSudojoDeleteChallenge", "delete", Segment.challenges, "challenge"),
   MutationHook("useSudojoPlayStart", "start", Segment.gamification, ""),
   MutationHook("useSudojoPlayFinish", "finish", Segment.gamification, "")}

IdleMutation ==
  [error |-> NoError,
   status |-> "idle",
   hook |-> [name |-> "", kind |-> "", family |-> <<>>, item |-> ""],
   variables |-> Undefined,
   invalidated |-> {},
   removed |-> {}]

MutationVariables(hook) ==
  IF hook.kind \in {"create", "start", "finish"} THEN {Undefined}
  ELSE IF hook.item = "technique" THEN {Some(Num(1)), Some(Num(37)), Some(Num(38))}
  ELSE {Some(Str(VALID_UUID)), Some(Str(<<"1", "2", "3">>)), Some(Str(<<>>))}

(***************************************************************************)
(* What the facade method called by mutationFn throws before it sends      *)
(* anything: the validation failure of the identifier, or nothing.         *)
(***************************************************************************)
mutationFn(hook, variables) ==
  IF hook.kind \notin {"update", "delete"} THEN NoError
  ELSE IF hook.item = "technique" THEN validateTechnique(Val(variables).n)
  ELSE IF hook.item = "level" THEN NoError
  ELSE validateUUID(Val(variables).s,
                    CASE hook.item = "board" -> "Board UUID"
                      [] hook.item = "daily" -> "Daily UUID"
                      [] hook.item = "challenge" -> "Challenge UUID")

mutate ==
  \E hook \in MutationHooks :
    \E variables \in MutationVariables(hook) :
      /\ mutation.status = "idle"
      /\ mutation' = [IdleMutation EXCEPT !.hook = hook, !.variables = variables,
                                          !.status = "pending"]
      /\ UNCHANGED <<baseUrl, headers, promise, requestCount, bag, built, queries, calls>>

onSuccess_FinishHistoryOnly ==
  LET hook == mutation.hook
      family == IF hook.family = Segment.levels THEN queryKeys("levels", <<>>)
                ELSE queryKeys("all", <<>>) \o <<ScalarPart(Str(hook.family))>>
      item == queryKeys(hook.item, Val(mutation.variables))
  IN /\ mutation.status = "pending"
     /\ mutationFn(hook, mutation.variables) = NoError
     /\ mutation' =
          [mutation EXCEPT
             !.status = "success",
             !.invalidated =
               CASE hook.kind = "update" -> {family, item}
                 [] hook.kind \in {"create", "delete"} -> {family}
                 [] hook.kind = "finish" ->
                      {family \o <<ScalarPart(Str(Segment.history))>>}
                 [] hook.kind = "start" -> {},
             !.removed = IF hook.kind = "delete" THEN {item} ELSE {}]
     /\ UNCHANGED <<baseUrl, headers, promise, requestCount, bag, built, queries, calls>>

onSuccess_FamilyOnly ==
  LET hook == mutation.hook
      family == IF hook.family = Segment.levels THEN queryKeys("levels", <<>>)
                ELSE queryKeys("all", <<>>) \o <<ScalarPart(Str(hook.family))>>
      item == queryKeys(hook.item, Val(mutation.variables))
  IN /\ mutation.status = "pending"
     /\ mutationFn(hook, mutation.variables) = NoError
     /\ mutation' =
          [mutation EXCEPT
             !.status = "success",
             !.invalidated =
               CASE hook.kind = "update" -> {family}
                 [] hook.kind \in {"create", "delete"} -> {family}
                 [] hook.kind = "finish" ->
                      {queryKeys("gamificationStats", <<>>),
                       family \o <<ScalarPart(Str(Segment.history))>>}
                 [] hook.kind = "start" -> {},
             !.removed = IF hook.kind = "delete" THEN {item} ELSE {}]
     /\ UNCHANGED <<baseUrl, headers, promise, requestCount, bag, built, queries, calls>>

onSuccess ==
  LET hook == mutation.hook
      family == IF hook.family = Segment.levels THEN queryKeys("levels", <<>>)
                ELSE queryKeys("all", <<>>) \o <<ScalarPart(Str(hook.family))>>
      item == queryKeys(hook.item, Val(mutation.variables))
  IN /\ mutation.status = "pending"
     /\ mutationFn(hook, mutation.variables) = NoError
     /\ mutation' =
          [mutation EXCEPT
             !.status = "success",
             !.invalidated =
               CASE hook.kind = "update" -> {family, item}
                 [] hook.kind \in {"create", "delete"} -> {family}
                 [] hook.kind = "finish" ->
                      {queryKeys("gamificationStats", <<>>),
                       family \o <<ScalarPart(Str(Segment.history))>>}
                 [] hook.kind = "start" -> {},
             !.removed = IF hook.kind = "delete" THEN {item} ELSE {}]
     /\ UNCHANGED <<baseUrl, headers, promise, requestCount, bag, built, queries, calls>>

onError_Settled ==
  \E error \in ({mutationFn(mutation.hook, mutation.variables)} \ {NoError})
                 \cup {NetworkError, Error("No data received from server")} :
    /\ mutation.status = "pending"
    /\ mutation' = [mutation EXCEPT
                      !.status = "error",
                      !.error = error,
                      !.invalidated = {queryKeys("all", <<>>)
                                         \o <<ScalarPart(Str(mutation.hook.family))>>}]
    /\ UNCHANGED <<baseUrl, headers, promise, requestCount, bag, built, queries, calls>>

onError ==
  \E error \in ({mutationFn(mutation.hook, mutation.variables)} \ {NoError})
                 \cup {NetworkError, Error("No data received from server")} :
    /\ mutation.status = "pending"
    /\ mutation' = [mutation EXCEPT !.status = "error", !.error = error]
    /\ UNCHANGED <<baseUrl, headers, promise, requestCount, bag, built, queries, calls>>

reset ==
  /\ mutation.status \in {"success", "error"}
  /\ mutation' = IdleMutation
  /\ UNCHANGED <<baseUrl, headers, promise, requestCount, bag, built, queries, calls>>

(***************************************************************************)
(* Solver methods.  solverSolve builds and sends its own request and       *)
(* inspects the envelope itself; validate and generate go through          *)
(* request().                                                              *)
(***************************************************************************)
SolveParams(options) ==
  <<Prop(Key.original, Field(options, Key.original)),
    Prop(Key.user, Field(options, Key.user)),
    Prop(Key.autopencilmarks, Field(options, Key.autopencilmarks)),
    Prop(Key.pencilmarks, Field(options, Key.pencilmarks)),
    Prop(Key.filters, Field(options, Key.filters)),
    Prop(Key.techniques, Field(options, Key.techniques))>>

solverSolveRequest_AlwaysBearer(path, token) ==
  [headers |-> ("Authorization" :> Bearer(token)) @@ headers,
   method |-> "GET",
   body |-> Undefined,
   timeout |-> Undefined,
   url |-> [path |-> path, base |-> baseUrl]]

solverSolveRequest(path, token) ==
  [headers |-> IF token # "" THEN ("Authorization" :> Bearer(token)) @@ headers
               ELSE headers,
   method |-> "GET",
   body |-> Undefined,
   timeout |-> Undefined,
   url |-> [path |-> path, base |-> baseUrl]]

SolveOptions ==
  { <<Prop(Key.user, Some(Str(user))), Prop(Key.techniques, techniques),
      Prop(Key.pencilmarks, pencilmarks), Prop(Key.original, Some(Str(original))),
      Prop(Key.filters, filters), Prop(Key.autopencilmarks, autoPencilmarks)>> :
      original \in Puzzles, user \in Puzzles, autoPencilmarks \in OptionalBooleans,
      pencilmarks \in OptionalLists, filters \in {Undefined, Some(Str(<<"x">>))},
      techniques \in {Undefined, Some(Str(<<"1", ",", "2">>))} }

solverSolve ==
  \E token \in Tokens, options \in SolveOptions :
    Send("solverSolve", Args(token, 0, <<>>, SolveParams(options), ""),
         solverSolveRequest(buildSolverUrl(ENDPOINTS.SOLVER_SOLVE, SolveParams(options)),
                            token))

VALIDATE_TIMEOUT == 120000

solverValidate_DefaultTimeout ==
  \E token \in Tokens, original \in Puzzles :
    Call("solverValidate",
         Args(token, 0, <<>>, <<Prop(Key.original, Some(Str(original)))>>, ""), NoError,
         buildSolverUrl(ENDPOINTS.SOLVER_VALIDATE, <<Prop(Key.original, Some(Str(original)))>>),
         Options(Undefined, Undefined, token, Undefined))

solverValidate ==
  \E token \in Tokens, original \in Puzzles :
    Call("solverValidate",
         Args(token, 0, <<>>, <<Prop(Key.original, Some(Str(original)))>>, ""), NoError,
         buildSolverUrl(ENDPOINTS.SOLVER_VALIDATE, <<Prop(Key.original, Some(Str(original)))>>),
         Options(Undefined, Undefined, token, Some(VALIDATE_TIMEOUT)))

solverGenerate ==
  \E token \in Tokens, symmetrical \in OptionalBooleans :
    Call("solverGenerate",
         Args(token, 0, <<>>, <<Prop(Key.symmetrical, symmetrical)>>, ""), NoError,
         buildSolverUrl(ENDPOINTS.SOLVER_GENERATE, <<Prop(Key.symmetrical, symmetrical)>>),
         Options(Undefined, Undefined, token, Undefined))

(***************************************************************************)
(* The client: construction and the calls a caller can make.               *)
(***************************************************************************)
BaseUrls ==
  LET LOCALHOST == <<"h", "t", "t", "p", ":", "/", "/", "l", "o", "c", "a", "l", "h", "o", "s", "t", ":", "5", "0", "0", "0">>
  IN {LOCALHOST, LOCALHOST \o <<"/">>, LOCALHOST \o <<"/", "/", "/">>}

Constructed ==
  /\ baseUrl \in BaseUrls
  /\ headers = DEFAULT_HEADERS
  /\ promise = Idle
  /\ requestCount = 0

Init ==
  /\ Constructed
  /\ bag = <<>>
  /\ built = Undefined
  /\ queries = NoQueries
  /\ mutation = IdleMutation
  /\ calls = NoCalls

Next ==
  \/ getPublic \/ getWithToken \/ create
  \/ getLevel \/ updateLevel \/ deleteLevel
  \/ getTechnique \/ updateTechnique \/ deleteTechnique \/ getRandomPractice
  \/ getByUuid \/ updateByUuid \/ deleteByUuid
  \/ getDailyByDate \/ getUserSubscription \/ deleteAllPractices
  \/ getTechniques \/ getRandomBoard \/ getExamples \/ getLearning \/ getBoards
  \/ getChallenges \/ getRandomChallenge \/ getPointHistory
  \/ solverSolve \/ solverValidate \/ solverGenerate
  \/ TransportRespond \/ TransportThrow \/ Release

Spec == Init /\ [][Next]_vars

(***************************************************************************)
(* The URL builder on its own: buildSolverUrl applied to any parameter     *)
(* object, whatever the insertion order of its keys.                       *)
(***************************************************************************)
InitBuilder ==
  LET BagKeys ==
        {Key.original, Key.user, Key.autopencilmarks, Key.pencilmarks, Key.filters,
         Key.techniques, Key.symmetrical}
      BagValues ==
        {Undefined, Some(Str(<<>>)), Some(Str(<<"1", ",", "2">>)), Some(Bool(TRUE))}
      ValueChars == {"1", ",", "%", "2", "C", " ", "&", "="}
      Strings(n) == UNION {[1..m -> ValueChars] : m \in 0..n}
      KeySeqs(n) ==
        {ks \in [1..n -> BagKeys] : \A i, j \in 1..n : i # j => ks[i] # ks[j]}
      Bags ==
        UNION { { [i \in 1..n |-> Prop(ks[i], vs[i])] :
                    ks \in KeySeqs(n), vs \in [1..n -> BagValues] } : n \in 0..MaxBagLen }
        \cup { <<Prop(Key.pencilmarks, Some(Str(value)))>> : value \in Strings(MaxValueLen) }
        \cup { SolveParams(options) : options \in SolveOptions }
  IN /\ Constructed
     /\ bag \in Bags
     /\ built = Undefined
     /\ queries = NoQueries
     /\ mutation = IdleMutation
     /\ calls = NoCalls

BuildSolverUrl ==
  /\ built = Undefined
  /\ built' = Some(buildSolverUrl(ENDPOINTS.SOLVER_SOLVE, bag))
  /\ UNCHANGED <<baseUrl, headers, promise, requestCount, bag, queries, mutation, calls>>

SpecBuilder == InitBuilder /\ [][BuildSolverUrl]_vars

(***************************************************************************)
(* The request executor on its own: request() called with any options.     *)
(***************************************************************************)
ExecutorOptions ==
  [method : {Undefined, Some("GET"), Some("POST"), Some("PUT"), Some("DELETE")},
   body : {Undefined, Some("payload")},
   headers : {Undefined, Some("X-Client" :> <<"test">>)},
   token : {Undefined, Some(""), Some("token-a")},
   timeout : {Undefined, Some(0), Some(VALIDATE_TIMEOUT)}]

Execute ==
  \E options \in ExecutorOptions :
    Send("request", NoArgs, request(Plain(ENDPOINTS.LEVELS), options))

NextExecutor == Execute \/ TransportRespond \/ TransportThrow \/ Release

SpecExecutor == Init /\ [][NextExecutor]_vars

(***************************************************************************)
(* The hooks on their own: a query hook rendered twice, and the mutation   *)
(* hooks.                                                                  *)
(***************************************************************************)
InitKeys ==
  /\ Constructed
  /\ bag = <<>>
  /\ built = Undefined
  /\ mutation = IdleMutation
  /\ calls = NoCalls
  /\ \E name \in FilterFactories :
       \E a \in FilterArgs(name), b \in FilterArgs(name) :
         queries = [NoQueries EXCEPT !.name = name, !.filters = <<a, b>>]

SpecKeys == InitKeys /\ [][useQuery]_vars

NextHooks == mutate \/ onSuccess \/ onError \/ reset

SpecHooks == Init /\ [][NextHooks]_vars

SpecCache == Init /\ [][useQueryHook]_vars

(***************************************************************************)
(* Concurrent calls on one client.  A facade method runs without           *)
(* interruption up to its await, so starting a call is one step; the       *)
(* transport answers the pending calls in any order.                       *)
(***************************************************************************)
startCall_SharedHeaders ==
  \E i \in DOMAIN calls, token \in Tokens \cup {"token-b"},
     op \in {"getLevels", "createLevel", "solverSolve"} :
    LET shared == IF token # "" THEN ("Authorization" :> Bearer(token)) @@ headers
                  ELSE headers
        params == <<Prop(Key.original, Some(Str(<<"0", "4", "0", "1">>)))>>
        path == IF op = "solverSolve"
                THEN buildSolverUrl(ENDPOINTS.SOLVER_SOLVE, SolveParams(params))
                ELSE Plain(ENDPOINTS.LEVELS)
        req == [headers |-> shared,
                method |-> IF op = "createLevel" THEN "POST" ELSE "GET",
                body |-> IF op = "createLevel" THEN Some(JSONstringify("payload"))
                         ELSE Undefined,
                timeout |-> Undefined,
                url |-> [path |-> path, base |-> baseUrl]]
    IN /\ calls[i].st = "idle"
       /\ requestCount < MaxRequests
       /\ calls' = [calls EXCEPT ![i] = [Idle EXCEPT !.st = "pending", !.op = op,
                                                     !.args = Args(token, 0, <<>>, <<>>, ""),
                                                     !.req = Some(req)]]
       /\ requestCount' = requestCount + 1
       /\ headers' = shared
       /\ UNCHANGED <<baseUrl, promise, bag, built, queries, mutation>>

startCall ==
  \E i \in DOMAIN calls, token \in Tokens \cup {"token-b"},
     op \in {"getLevels", "createLevel", "solverSolve"} :
    LET options == IF op = "createLevel"
                   THEN Options(Some("POST"), Some("payload"), token, Undefined)
                   ELSE Options(Undefined, Undefined, token, Undefined)
        params == <<Prop(Key.original, Some(Str(<<"0", "4", "0", "1">>)))>>
        req == IF op = "solverSolve"
               THEN solverSolveRequest(
                      buildSolverUrl(ENDPOINTS.SOLVER_SOLVE, SolveParams(params)), token)
               ELSE request(Plain(ENDPOINTS.LEVELS), options)
    IN /\ calls[i].st = "idle"
       /\ requestCount < MaxRequests
       /\ calls' = [calls EXCEPT ![i] = [Idle EXCEPT !.st = "pending", !.op = op,
                                                     !.args = Args(token, 0, <<>>, <<>>, ""),
                                                     !.req = Some(req)]]
       /\ requestCount' = requestCount + 1
       /\ UNCHANGED <<baseUrl, headers, promise, bag, built, queries, mutation>>

settleCall ==
  \E i \in DOMAIN calls,
     response \in {e \in Envelopes :
                     \/ e.status = 200 /\ IsDefined(e.data) /\ Val(e.data).data = "result"
                     \/ e.status = 500 /\ e.data = Undefined} :
    LET settled == IF calls[i].op = "solverSolve" THEN solverSolveResult(response)
                   ELSE requestResult(response)
    IN /\ calls[i].st = "pending"
       /\ calls' = [calls EXCEPT ![i].st = settled.st,
                                 ![i].response = Some(response),
                                 ![i].value = settled.value,
                                 ![i].error = settled.error]
       /\ UNCHANGED <<baseUrl, headers, promise, requestCount, bag, built, queries,
                      mutation>>

SpecConcurrent == Init /\ [][startCall \/ settleCall]_vars

(***************************************************************************)
(* Properties.                                                             *)
(***************************************************************************)
Sent == IsDefined(promise.req)

Req == Val(promise.req)

Answered == IsDefined(promise.response)

Response == Val(promise.response)

LevelOps == {"getLevel", "updateLevel", "deleteLevel"}

TechniqueOps ==
  {"getTechnique", "updateTechnique", "deleteTechnique", "getRandomPractice"}

UuidOps ==
  {"getLearningItem", "updateLearning", "deleteLearning", "getBoard", "updateBoard",
   "deleteBoard", "getDaily", "updateDaily", "deleteDaily", "getChallenge",
   "updateChallenge", "deleteChallenge"}

SolverOps == {"solverSolve", "solverValidate", "solverGenerate"}

InputInvalid(p) ==
  \/ p.op \in LevelOps /\ p.args.n \notin 1..12
  \/ p.op \in TechniqueOps /\ p.args.n \notin 1..37
  \/ p.op \in UuidOps /\ ~isValidUUID(p.args.id)
  \/ p.op = "getDailyByDate" /\ ~isDateFormat(p.args.id)
  \/ p.op = "getUserSubscription" /\ Len(p.args.id) \notin 1..128

(* C1: a facade call with an invalid level, technique number, UUID, date   *)
(* or userId is rejected without a request reaching the transport: the     *)
(* call holds no request and the transport's call count does not change.   *)
C1_InvalidInputNeverSent ==
  [][InputInvalid(promise') =>
       /\ promise'.st = "rejected"
       /\ promise'.req = Undefined
       /\ requestCount' = requestCount]_vars

C1_Witness ==
  /\ promise.op = "getLevel"
  /\ promise.args.n = 13
  /\ promise.st = "rejected"
  /\ promise.error.message = "Invalid level: ${level}. Expected 1-12"
  /\ requestCount = 0

(* C2: a call whose envelope has ok = false is rejected, never resolved    *)
(* with the envelope's payload.                                            *)
C2_NonOkEnvelopeRejects ==
  (Answered /\ ~Response.ok) => promise.st = "rejected"

(* C3 as stated: an envelope without payload rejects the call with the     *)
(* "No data received from server" failure, for every endpoint.             *)
C3_NoDataFailureEverywhere ==
  (Answered /\ Response.data = Undefined) =>
    /\ promise.st = "rejected"
    /\ promise.error = Error("No data received from server")

(* C3 amended: an envelope without payload always rejects the call,        *)
(* whatever ok and status; the failure is "No data received from server"   *)
(* for every endpoint except solve, whose failure is "Failed to get hints  *)
(* from solver".                                                           *)
C3_NoDataRejects ==
  (Answered /\ Response.data = Undefined) =>
    /\ promise.st = "rejected"
    /\ promise.error = IF promise.op = "solverSolve"
                       THEN Error("Failed to get hints from solver")
                       ELSE Error("No data received from server")

C3_Witness ==
  /\ promise.op = "solverValidate"
  /\ Answered
  /\ Response.ok
  /\ Response.data = Undefined
  /\ promise.st = "rejected"

IsAccessDenied(response) ==
  /\ response.status = 402
  /\ IsDefined(response.data)
  /\ Val(response.data).error.t = "object"
  /\ Val(response.data).error.code = "HINT_ACCESS_DENIED"

(* C4: solve answered with status 402 and a payload whose error code is    *)
(* HINT_ACCESS_DENIED rejects with HintAccessDeniedError carrying the      *)
(* payload's hint level, required entitlement and user state.              *)
C4_AccessDenied ==
  (promise.op = "solverSolve" /\ Answered /\ IsAccessDenied(Response)) =>
    /\ promise.st = "rejected"
    /\ promise.error.name = "HintAccessDeniedError"
    /\ promise.error.info.hintLevel = Val(Response.data).error.hintLevel
    /\ promise.error.info.requiredEntitlement
         = Val(Response.data).error.requiredEntitlement
    /\ promise.error.info.userState = Val(Response.data).error.userState

C4_Witness ==
  /\ promise.op = "solverSolve"
  /\ Answered
  /\ IsAccessDenied(Response)
  /\ promise.error.info.hintLevel = 3
  /\ promise.error.info.requiredEntitlement = "black_belt"

CallToken ==
  IF IsDefined(promise.args.token) THEN Val(promise.args.token) ELSE ""

(* C5: every request handed to the transport carries the two default      *)
(* headers; it carries Authorization exactly when the call's token is not  *)
(* empty, with the value Bearer <token>, and nothing else.                 *)
C5_Headers ==
  Sent =>
    /\ Req.headers["Content-Type"] = <<"application/json">>
    /\ Req.headers["Accept"] = <<"application/json">>
    /\ ("Authorization" \in DOMAIN Req.headers) <=> (CallToken # "")
    /\ CallToken # "" => Req.headers["Authorization"] = Bearer(CallToken)
    /\ CallToken = "" => DOMAIN Req.headers = {"Content-Type", "Accept"}

C5_Witness ==
  /\ Sent
  /\ promise.op = "getLevels"
  /\ promise.args.token = Some("")
  /\ DOMAIN Req.headers = {"Content-Type", "Accept"}

(* C6: a request whose method is GET never carries a body.                 *)
C6_GetHasNoBody ==
  (Sent /\ Req.method = "GET") => Req.body = Undefined

(* C7: the keys of the query string emitted by buildSolverUrl are in       *)
(* strictly ascending order, whatever the insertion order of the bag.      *)
C7_SolverKeysAscending ==
  IsDefined(built) => StrictlyAscending(QueryKeys(Val(built).query))

C7_Witness ==
  /\ IsDefined(built)
  /\ ObjectKeys(bag) = <<Key.original, Key.user, Key.autopencilmarks,
                         Key.pencilmarks, Key.filters, Key.techniques>>
  /\ QueryKeys(Val(built).query)
       = <<Key.autopencilmarks, Key.filters, Key.original, Key.pencilmarks,
           Key.techniques, Key.user>>

(* C8 as stated: the query keys of every request are in ascending order.   *)
C8_AllKeysAscending ==
  Sent => StrictlyAscending(QueryKeys(Req.url.path.query))

AdditionOrder(op) ==
  CASE op = "getBoards" ->
         <<Key.level, Key.limit, Key.offset, Key.techniques, Key.technique_bit>>
    [] op = "getLearning" -> <<Key.technique, Key.language_code>>
    [] op \in {"getChallenges", "getRandomChallenge"} -> <<Key.level, Key.difficulty>>
    [] op = "getPointHistory" -> <<Key.limit, Key.offset>>
    [] op \in {"getTechniques", "getRandomBoard"} -> <<Key.level>>
    [] op = "getExamples" -> <<Key.technique>>
    [] OTHER -> <<>>

ListOps ==
  {"getBoards", "getLearning", "getChallenges", "getRandomChallenge",
   "getPointHistory", "getTechniques", "getRandomBoard", "getExamples"}

Position(order, key) ==
  IF \E i \in 1..Len(order) : order[i] = key
  THEN CHOOSE i \in 1..Len(order) : order[i] = key
  ELSE 0

FollowsOrder(keys, order) ==
  /\ \A i \in 1..Len(keys) : Position(order, keys[i]) > 0
  /\ \A i \in 1..(Len(keys) - 1) :
       Position(order, keys[i]) < Position(order, keys[i + 1])

(* C8 amended: only the solver endpoints emit their keys in ascending      *)
(* order; a list endpoint emits its keys in the order in which the method  *)
(* adds them (getBoards: level, limit, offset, techniques, technique_bit;  *)
(* getLearning: technique, language_code; getChallenges and                *)
(* getRandomChallenge: level, difficulty; getPointHistory: limit, offset). *)
C8_KeysInAdditionOrder ==
  Sent =>
    /\ promise.op \in SolverOps => StrictlyAscending(QueryKeys(Req.url.path.query))
    /\ promise.op \in ListOps =>
         FollowsOrder(QueryKeys(Req.url.path.query), AdditionOrder(promise.op))

C8_Witness ==
  /\ Sent
  /\ promise.op = "getBoards"
  /\ QueryKeys(Req.url.path.query) = <<Key.techniques, Key.technique_bit>>

(***************************************************************************)
(* The receiver's decoding of a query value: decodeURIComponent.           *)
(***************************************************************************)
HexValue(h) == (CHOOSE i \in 1..16 : HexDigits[i] = h) - 1

IsHexDigit(c) == \E i \in 1..16 : HexDigits[i] = c

RECURSIVE decodeURIComponent(_)
decodeURIComponent(s) ==
  IF s = <<>> THEN <<>>
  ELSE IF Head(s) = "%" /\ Len(s) >= 3 /\ IsHexDigit(s[2]) /\ IsHexDigit(s[3])
       THEN <<CharOf(16 * HexValue(s[2]) + HexValue(s[3]))>>
            \o decodeURIComponent(SubSeq(s, 4, Len(s)))
       ELSE <<Head(s)>> \o decodeURIComponent(Tail(s))

RECURSIVE CommaPreservingEncoding(_)
CommaPreservingEncoding(s) ==
  IF s = <<>> THEN <<>>
  ELSE (IF Head(s) = "," \/ IsUnreserved(Head(s)) THEN <<Head(s)>>
        ELSE PercentEscape(Head(s)))
       \o CommaPreservingEncoding(Tail(s))

HasEscapedComma(s) ==
  \E i \in 1..(Len(s) - 2) : s[i] = "%" /\ s[i + 1] = "2" /\ s[i + 2] = "C"

SingleStringBag ==
  /\ Len(bag) = 1
  /\ IsDefined(bag[1].value)
  /\ Val(bag[1].value).t = "string"

EmittedValue == PairValue(QueryPairs(Val(built).query)[1])

(* C9: an emitted query value is the percent-encoding of the original      *)
(* with every comma left literal, it never contains %2C, and decoding it   *)
(* gives the original back.                                                *)
C9_CommaRoundTrip ==
  (IsDefined(built) /\ SingleStringBag) =>
    /\ Len(QueryPairs(Val(built).query)) = 1
    /\ EmittedValue = CommaPreservingEncoding(Val(bag[1].value).s)
    /\ ~HasEscapedComma(EmittedValue)
    /\ decodeURIComponent(EmittedValue) = Val(bag[1].value).s

C9_Witness ==
  /\ IsDefined(built)
  /\ SingleStringBag
  /\ Val(bag[1].value).s = <<",", "%", ",">>
  /\ EmittedValue = <<",", "%", "2", "5", ",">>

PairsWithKey(query, key) ==
  {i \in 1..Len(QueryPairs(query)) : PairKey(QueryPairs(query)[i]) = key}

DefinedParams(params) == {i \in 1..Len(params) : IsDefined(params[i].value)}

(* C10: the query string of a call holds exactly one pair for each         *)
(* optional parameter that is not undefined (an empty string included),    *)
(* none for an undefined one, and "?" is emitted exactly when there is a   *)
(* pair.                                                                   *)
C10_OnePairPerDefinedParameter ==
  (Sent /\ promise.args.params # <<>>) =>
    /\ \A i \in 1..Len(promise.args.params) :
         Cardinality(PairsWithKey(Req.url.path.query, promise.args.params[i].key))
           = IF IsDefined(promise.args.params[i].value) THEN 1 ELSE 0
    /\ Len(QueryPairs(Req.url.path.query))
         = Cardinality(DefinedParams(promise.args.params))
    /\ Req.url.path.sep <=> (Len(QueryPairs(Req.url.path.query)) > 0)

(***************************************************************************)
(* The canonical UUID text: five groups of 8, 4, 4, 4 and 12 hexadecimal   *)
(* digits of either case, separated by hyphens.                            *)
(***************************************************************************)
HexChars ==
  {"0", "1", "2", "3", "4", "5", "6", "7", "8", "9", "a", "b", "c", "d", "e", "f",
   "A", "B", "C", "D", "E", "F"}

CanonicalUuid(id) ==
  LET groups == SplitOn(id, "-", <<>>)
  IN /\ Len(groups) = 5
     /\ \A g \in 1..5 :
          /\ Len(groups[g]) = <<8, 4, 4, 4, 12>>[g]
          /\ \A i \in 1..Len(groups[g]) : groups[g][i] \in HexChars

UuidFieldName(op) ==
  CASE op \in {"getLearningItem", "updateLearning", "deleteLearning"} -> "Learning UUID"
    [] op \in {"getBoard", "updateBoard", "deleteBoard"} -> "Board UUID"
    [] op \in {"getDaily", "updateDaily", "deleteDaily"} -> "Daily UUID"
    [] op \in {"getChallenge", "updateChallenge", "deleteChallenge"} -> "Challenge UUID"

PathParam == Req.url.path.endpoint.param

(* C11: a method taking a UUID passes its input on unchanged exactly when  *)
(* the input has the canonical 8-4-4-4-12 hexadecimal form in either case; *)
(* an empty input fails with the "required" failure naming the field, and  *)
(* any other input fails with the distinct "invalid format" failure that   *)
(* carries the offending value and the field name.                         *)
C11_ValidateUuid ==
  promise.op \in UuidOps =>
    /\ CanonicalUuid(promise.args.id) =>
         /\ Sent
         /\ PathParam = promise.args.id
         /\ promise.error.field = ""
    /\ promise.args.id = <<>> =>
         /\ ~Sent
         /\ promise.st = "rejected"
         /\ promise.error.message = "${name} is required"
         /\ promise.error.field = UuidFieldName(promise.op)
    /\ (promise.args.id # <<>> /\ ~CanonicalUuid(promise.args.id)) =>
         /\ ~Sent
         /\ promise.st = "rejected"
         /\ promise.error.message
              = "Invalid ${name} format: \"${uuid}\". Expected UUID format (xxxxxxxx-xxxx-xxxx-xxxx-xxxxxxxxxxxx)"
         /\ promise.error.field = UuidFieldName(promise.op)
         /\ promise.error.value = promise.args.id

C11_Witness ==
  /\ promise.op = "updateBoard"
  /\ CanonicalUuid(promise.args.id)
  /\ promise.args.id[1] = "A"
  /\ Sent
  /\ PathParam = promise.args.id

(***************************************************************************)
(* The YYYY-MM-DD shape: four digits, a hyphen, two digits, a hyphen, two  *)
(* digits, and nothing else.                                               *)
(***************************************************************************)
Digits == {"0", "1", "2", "3", "4", "5", "6", "7", "8", "9"}

DateShape(date) ==
  LET groups == SplitOn(date, "-", <<>>)
  IN /\ Len(groups) = 3
     /\ \A g \in 1..3 :
          /\ Len(groups[g]) = <<4, 2, 2>>[g]
          /\ \A i \in 1..Len(groups[g]) : groups[g][i] \in Digits

(* C12: getDailyByDate sends the date exactly when it has the shape        *)
(* dddd-dd-dd with nothing before or after, without any calendar check     *)
(* (month 13 is sent); every other string is rejected with the             *)
(* invalid-date-format failure carrying the value.                         *)
C12_DateFormat ==
  promise.op = "getDailyByDate" =>
    /\ DateShape(promise.args.id) =>
         /\ Sent
         /\ PathParam = promise.args.id
         /\ promise.error.field = ""
    /\ ~DateShape(promise.args.id) =>
         /\ ~Sent
         /\ promise.st = "rejected"
         /\ promise.error.message
              = "Invalid date format: \"${date}\". Expected YYYY-MM-DD format"
         /\ promise.error.value = promise.args.id

C12_Witness ==
  /\ promise.op = "getDailyByDate"
  /\ promise.args.id = <<"2", "0", "2", "5", "-", "1", "3", "-", "4", "5">>
  /\ Sent
  /\ PathParam = promise.args.id
  /\ Req.url.path.endpoint.prefix = "/api/v1/dailies/date/"

(* C13: a method taking a level sends it exactly when it lies in 1..12,    *)
(* and a method taking a technique number exactly when it lies in 1..37;   *)
(* a value outside the range is rejected with the failure whose message    *)
(* names the allowed bounds.                                               *)
C13_BoundedNumbers ==
  /\ promise.op \in LevelOps =>
       /\ promise.args.n \in 1..12 =>
            /\ Sent
            /\ PathParam = NumberToString(promise.args.n)
            /\ promise.error.field = ""
       /\ promise.args.n \notin 1..12 =>
            /\ ~Sent
            /\ promise.st = "rejected"
            /\ promise.error.message = "Invalid level: ${level}. Expected 1-12"
            /\ promise.error.value = NumberToString(promise.args.n)
  /\ promise.op \in TechniqueOps =>
       /\ promise.args.n \in 1..37 =>
            /\ Sent
            /\ PathParam = NumberToString(promise.args.n)
            /\ promise.error.field = ""
       /\ promise.args.n \notin 1..37 =>
            /\ ~Sent
            /\ promise.st = "rejected"
            /\ promise.error.message = "Invalid technique: ${technique}. Expected 1-37"
            /\ promise.error.value = NumberToString(promise.args.n)

C13_Witness ==
  /\ promise.op = "getRandomPractice"
  /\ promise.args.n = 37
  /\ Sent
  /\ PathParam = <<"3", "7">>
  /\ Req.url.path.endpoint.suffix = "/random"

(* C14: getUserSubscription sends the userId exactly when its length is    *)
(* between 1 and 128 characters; an empty userId and one of 129 characters *)
(* or more are rejected with the invalid-length failure.                   *)
C14_UserIdLength ==
  promise.op = "getUserSubscription" =>
    /\ Len(promise.args.id) \in 1..128 =>
         /\ Sent
         /\ PathParam = promise.args.id
         /\ promise.error.field = ""
    /\ Len(promise.args.id) \notin 1..128 =>
         /\ ~Sent
         /\ promise.st = "rejected"
         /\ promise.error.message
              = "Invalid userId: \"${userId}\". Expected 1-128 characters"
         /\ promise.error.value = promise.args.id

C14_Witness ==
  /\ promise.op = "getUserSubscription"
  /\ Len(promise.args.id) = 128
  /\ Sent
  /\ Req.url.path.endpoint.prefix = "/api/v1/users/"
  /\ Req.url.path.endpoint.suffix = "/subscriptions"

(***************************************************************************)
(* Every endpoint path begins with a slash, so the URL has one slash       *)
(* between host and path exactly when the base part does not end in one.   *)
(***************************************************************************)
EndsWithSlash(s) == s # <<>> /\ s[Len(s)] = "/"

(* C15: whatever base URL the client was constructed with, the URL of every
   request handed to the transport has exactly one slash between the host
   and the endpoint path: the trailing slashes of the base URL were
   stripped. *)
C15_TrailingSlashesStripped ==
  Sent => ~EndsWithSlash(Req.url.base)

(***************************************************************************)
(* A step that hands a request to the transport, and a step that settles   *)
(* the call in progress with a failure: the transport threw, or its        *)
(* envelope is not ok, or it carries no payload.                           *)
(***************************************************************************)
InvokesTransport == requestCount' # requestCount

SettlesWithFailure ==
  /\ promise.st = "pending"
  /\ promise'.st # "pending"
  /\ \/ promise'.response = Undefined
     \/ ~Val(promise'.response).ok
     \/ Val(promise'.response).data = Undefined

(* C16: nothing is retried.  The transport is invoked only by the step
   that starts a call, once, never again while the call is pending or when
   it settles, whatever the outcome; and every failure (transport error,
   no-data envelope, API failure) settles the call as rejected. *)
C16_NoRetryFailuresReject ==
  [][/\ InvokesTransport =>
          /\ requestCount' = requestCount + 1
          /\ promise.st = "idle"
          /\ promise'.st = "pending"
     /\ SettlesWithFailure => promise'.st = "rejected"]_vars

(* C17: when the transport's request operation throws, the call is
   rejected with the very error the transport threw, not wrapped and not
   replaced, whichever facade method made the call. *)
C17_TransportErrorUnchanged ==
  promise.thrown # NoError =>
    /\ promise.st = "rejected"
    /\ promise.error = promise.thrown
    /\ promise.value = Undefined

C17_Witness ==
  /\ promise.op = "solverSolve"
  /\ Sent
  /\ ~Answered
  /\ promise.thrown = NetworkError
  /\ promise.error = NetworkError
  /\ promise.st = "rejected"

(* C18: the request of solverValidate carries the timeout 120000 ms and
   the request of every other facade call carries no timeout, also when
   the call is made after a validate call: the override belongs to the
   call and is not kept in the client. *)
C18_OnlyValidateTimeout ==
  Sent =>
    Req.timeout = IF promise.op = "solverValidate" THEN Some(120000)
                  ELSE Undefined

C18_Witness ==
  /\ promise.op = "solverValidate"
  /\ Sent
  /\ Req.timeout = Some(120000)
  /\ requestCount = 2

(***************************************************************************)
(* Deep structural equality of query keys: arrays are equal element by     *)
(* element; two objects are equal when they have the same property names   *)
(* and equal values under each name, in whatever order the properties were *)
(* inserted.                                                               *)
(***************************************************************************)
PropertyNames(object) == {object[i].key : i \in 1..Len(object)}

ObjectDeepEqual(a, b) ==
  /\ PropertyNames(a) = PropertyNames(b)
  /\ \A key \in PropertyNames(a) : Lookup(a, key) = Lookup(b, key)

DeepEqual(k1, k2) ==
  /\ Len(k1) = Len(k2)
  /\ \A i \in 1..Len(k1) :
       /\ k1[i].scalar = k2[i].scalar
       /\ IsDefined(k1[i].object) = IsDefined(k2[i].object)
       /\ IsDefined(k1[i].object) =>
            ObjectDeepEqual(Val(k1[i].object), Val(k2[i].object))

SamePairs(a, b) ==
  /\ IsDefined(a)
  /\ IsDefined(b)
  /\ {Val(a)[i] : i \in 1..Len(Val(a))} = {Val(b)[i] : i \in 1..Len(Val(b))}

DifferInAValue(a, b) ==
  /\ IsDefined(a)
  /\ IsDefined(b)
  /\ \E key \in PropertyNames(Val(a)) \cap PropertyNames(Val(b)) :
       Lookup(Val(a), key) # Lookup(Val(b), key)

(* C19: for every query-key factory that takes a filter object, two calls
   whose filter objects hold the same key/value pairs give keys that are
   deep-equal, whatever the insertion order of the properties and although
   the objects are distinct, and two calls whose filters differ in the
   value of a property give keys that are not deep-equal. *)
C19_FilterKeysDeepEqual ==
  queries.keys # <<>> =>
    /\ SamePairs(queries.filters[1], queries.filters[2]) =>
         DeepEqual(queries.keys[1], queries.keys[2])
    /\ DifferInAValue(queries.filters[1], queries.filters[2]) =>
         ~DeepEqual(queries.keys[1], queries.keys[2])

C19_Witness ==
  /\ queries.name = "challenges"
  /\ queries.keys # <<>>
  /\ queries.filters[1] = Some(<<Prop(Key.level, Some(Num(3))),
                                 Prop(Key.difficulty, Some(Str(<<"e", "n">>)))>>)
  /\ queries.filters[2] = Some(<<Prop(Key.difficulty, Some(Str(<<"e", "n">>))),
                                 Prop(Key.level, Some(Num(3)))>>)
  /\ queries.keys[1] # queries.keys[2]
  /\ DeepEqual(queries.keys[1], queries.keys[2])

(***************************************************************************)
(* The keys of a resource family and of one of its items, as the spec      *)
(* names them: ["sudojo", family] and ["sudojo", family, id].              *)
(***************************************************************************)
FamilyKey(family) ==
  <<ScalarPart(Str(Segment.sudojo)), ScalarPart(Str(family))>>

ItemKey(family, id) == FamilyKey(family) \o <<ScalarPart(id)>>

Touched == mutation.invalidated \cup mutation.removed

(* C20: after a successful update or delete mutation of the resource with
   identifier id, the keys invalidated or removed include the key of the
   resource family and the key of the item id; after a successful create
   they include the key of the resource family. *)
C20_MutationInvalidates ==
  (mutation.status = "success" /\ mutation.hook.kind \in {"create", "update", "delete"}) =>
    /\ FamilyKey(mutation.hook.family) \in Touched
    /\ mutation.hook.kind \in {"update", "delete"} =>
         ItemKey(mutation.hook.family, Val(mutation.variables)) \in Touched

C20_Witness ==
  /\ mutation.status = "success"
  /\ mutation.hook.name = "useSudojoDeleteTechnique"
  /\ mutation.variables = Some(Num(37))
  /\ mutation.invalidated = {FamilyKey(Segment.techniques)}
  /\ mutation.removed = {ItemKey(Segment.techniques, Num(37))}

(***************************************************************************)
(* The key of the cached gamification stats.                               *)
(***************************************************************************)
StatsKey ==
  FamilyKey(Segment.gamification) \o <<ScalarPart(Str(Segment.stats))>>

PlayHooks == {"useSudojoPlayStart", "useSudojoPlayFinish"}

(* C21 as stated: after a successful play start and after a successful
   play finish, the key of the gamification stats has been invalidated. *)
C21_PlayInvalidatesStats ==
  (mutation.status = "success" /\ mutation.hook.name \in PlayHooks) =>
    StatsKey \in mutation.invalidated

(* C21 amended: after a successful play finish the key of the gamification
   stats (and the key of the point history) has been invalidated; a
   successful play start invalidates and removes nothing. *)
C21_FinishInvalidatesStats ==
  mutation.status = "success" =>
    /\ mutation.hook.name = "useSudojoPlayFinish" =>
         /\ StatsKey \in mutation.invalidated
         /\ FamilyKey(Segment.gamification) \o <<ScalarPart(Str(Segment.history))>>
              \in mutation.invalidated
    /\ mutation.hook.name = "useSudojoPlayStart" => Touched = {}

C21_Witness ==
  /\ mutation.status = "success"
  /\ mutation.hook.name = "useSudojoPlayFinish"
  /\ StatsKey \in mutation.invalidated
  /\ Cardinality(mutation.invalidated) = 2

(***************************************************************************)
(* C22 (as stated): every query for a random resource (random board,       *)
(* random daily, random challenge, random practice) and for the point      *)
(* history is registered with staleness 0, and every other query with a    *)
(* strictly positive staleness.                                            *)
(***************************************************************************)
RandomOrHistory ==
  {"boardRandom", "dailyRandom", "challengeRandom", "practiceRandom",
   "gamificationHistory"}

C22_ZeroStalenessOnlyRandomHistory ==
  \A q \in queries.cache :
    IF q.factory \in RandomOrHistory THEN q.staleTime = 0 ELSE q.staleTime > 0

(***************************************************************************)
(* C22 (amended): a query registered by a hook whose caller gave no        *)
(* staleTime of its own has staleness 0 when it is for a random resource,  *)
(* for the point history or for the practice counts, and a strictly        *)
(* positive staleness otherwise.                                           *)
(***************************************************************************)
DefaultStaleness(q) ==
  \E hook \in QueryHooks : hook.name = q.hook /\ hook.staleTime = q.staleTime

C22_DefaultStaleness ==
  \A q \in queries.cache :
    DefaultStaleness(q) =>
      IF q.factory \in RandomOrHistory \cup {"practiceCounts"}
      THEN q.staleTime = 0
      ELSE q.staleTime > 0

C22_Witness ==
  /\ \E q \in queries.cache : q.hook = "useSudojoPointHistory" /\ q.staleTime = 0
  /\ \E q \in queries.cache : q.hook = "useSudojoDailies" /\ q.staleTime = 300000

(***************************************************************************)
(* A payload in which both data and error are null.                        *)
(***************************************************************************)
Degenerate(payload) == payload.data = "null" /\ payload.error.t = "null"

(* C23 as stated: no facade call resolves with a result in which both data
   and error are null; such a response makes the call reject. *)
C23_NoDegenerateResult ==
  promise.st = "resolved" => ~Degenerate(Val(promise.value))

(* C23 amended: a facade call answered with an ok envelope whose payload has
   both data and error null resolves with that payload, unchanged; only an
   envelope without any payload is turned into a failure. *)
C23_DegeneratePayloadResolves ==
  (/\ Answered
   /\ Response.ok
   /\ IsDefined(Response.data)
   /\ Degenerate(Val(Response.data))) =>
     /\ promise.st = "resolved"
     /\ promise.value = Response.data

C23_Witness ==
  /\ promise.op = "getLevels"
  /\ Answered
  /\ Response.ok
  /\ IsDefined(Response.data)
  /\ Degenerate(Val(Response.data))
  /\ promise.st = "resolved"
  /\ Degenerate(Val(promise.value))

(***************************************************************************)
(* The calls of create, update and delete methods (POST, PUT, DELETE) and  *)
(* of solve.                                                               *)
(***************************************************************************)
NeedsCredential ==
  promise.op = "solverSolve" \/ Req.method \in {"POST", "PUT", "DELETE"}

(* C24 as stated: every request of a create, update or delete method or of
   solve that reaches the transport carries Authorization: Bearer <token>
   with a token that is not empty. *)
C24_CredentialAlwaysSent ==
  (Sent /\ NeedsCredential) =>
    /\ CallToken # ""
    /\ "Authorization" \in DOMAIN Req.headers
    /\ Req.headers["Authorization"] = Bearer(CallToken)

(* C24 amended: a request of a create, update or delete method or of solve
   carries Authorization: Bearer <token> when the token of the call is not
   empty; a call with an empty token is sent all the same, without an
   Authorization header. *)
C24_CredentialSentWhenGiven ==
  (Sent /\ NeedsCredential) =>
    IF CallToken # ""
    THEN /\ "Authorization" \in DOMAIN Req.headers
         /\ Req.headers["Authorization"] = Bearer(CallToken)
    ELSE "Authorization" \notin DOMAIN Req.headers

C24_Witness ==
  /\ Sent
  /\ promise.op = "solverSolve"
  /\ CallToken = ""
  /\ "Authorization" \notin DOMAIN Req.headers
  /\ requestCount > 0

(* C25: a call answered with an envelope that is ok and has a payload
   resolves with exactly that payload, nothing added, removed or raised:
   a payload whose error member is a string is returned, not thrown. *)
C25_PassThroughOnSuccess ==
  (Answered /\ Response.ok /\ IsDefined(Response.data)) =>
    /\ promise.st = "resolved"
    /\ promise.value = Response.data
    /\ promise.error = NoError

C25_Witness ==
  /\ promise.op = "solverSolve"
  /\ Answered
  /\ Response.ok
  /\ promise.st = "resolved"
  /\ IsDefined(promise.value)
  /\ Val(promise.value).error.t = "string"
  /\ Val(promise.value).error.message = "Internal Server Error"

(* C26: a call is rejected with the access-denied failure only if it is a
   solve call answered with status 402 and a payload whose error code is
   HINT_ACCESS_DENIED, and such a solve call is rejected with it rather
   than with the generic failure; a solve call answered otherwise with a
   status that is not ok (402 without that code included) or without
   payload is rejected with "Failed to get hints from solver"; no other
   method ever rejects with the access-denied failure. *)
C26_AccessDeniedOnlyForSolve ==
  /\ promise.error.name = "HintAccessDeniedError" =>
       /\ promise.op = "solverSolve"
       /\ Answered
       /\ IsAccessDenied(Response)
  /\ (promise.op = "solverSolve" /\ Answered) =>
       IF IsAccessDenied(Response)
       THEN promise.st = "rejected" /\ promise.error.name = "HintAccessDeniedError"
       ELSE (~Response.ok \/ Response.data = Undefined) =>
              /\ promise.st = "rejected"
              /\ promise.error = Error("Failed to get hints from solver")
  /\ (promise.op # "solverSolve" /\ Answered) =>
       promise.error.name # "HintAccessDeniedError"

C26_Witness ==
  /\ promise.op = "solverSolve"
  /\ Answered
  /\ Response.status = 402
  /\ IsDefined(Response.data)
  /\ Val(Response.data).error.code = "PAYMENT_REQUIRED"
  /\ promise.st = "rejected"
  /\ promise.error = Error("Failed to get hints from solver")

(***************************************************************************)
(* Call i carries the Authorization header of its own token, or none when  *)
(* its token is empty.                                                     *)
(***************************************************************************)
OwnAuthorization(i) ==
  LET token == Val(calls[i].args.token)
      sent == Val(calls[i].req).headers
  IN IF token # ""
     THEN "Authorization" \in DOMAIN sent /\ sent["Authorization"] = Bearer(token)
     ELSE "Authorization" \notin DOMAIN sent

(* C27: however concurrent calls on one client interleave, the request of
   each call carries the Authorization header made from that call's own
   token, or none when its token is empty, never the token of another call;
   and no step of any call changes the base URL or the default headers of
   the client. *)
C27_CallsShareNothing ==
  /\ [](\A i \in DOMAIN calls : IsDefined(calls[i].req) => OwnAuthorization(i))
  /\ [][baseUrl' = baseUrl /\ headers' = headers]_vars

C27_Witness ==
  /\ calls[1].st = "pending"
  /\ calls[2].st = "pending"
  /\ calls[1].args.token = Some("token-a")
  /\ calls[2].args.token = Some("")
  /\ calls[1].op = "solverSolve"
  /\ Val(calls[1].req).headers["Authorization"] = Bearer("token-a")
  /\ "Authorization" \notin DOMAIN Val(calls[2].req).headers

(* C28: a mutation whose facade call fails (its validation throws, the
   transport throws, or no data comes back) invalidates and removes no cache
   key; keys are invalidated or removed only once the call has resolved,
   never while the mutation is idle or its request is pending. *)
C28_FailedMutationTouchesNothing ==
  mutation.status # "success" => Touched = {}

C28_Witness ==
  /\ mutation.status = "error"
  /\ mutation.hook.name = "useSudojoUpdateTechnique"
  /\ mutation.variables = Some(Num(38))
  /\ mutation.error.field = "technique"
  /\ Touched = {}

(* C29: cache keys of distinct logical queries never collide: two
   registered queries have equal keys only if they come from the same key
   factory with equal arguments; so daily(id) differs from dailyRandom(),
   dailyToday() and every dailyByDate(date) for every string id, and
   board(id), challenge(id) differ from every boardRandom(filters),
   challengeRandom(filters). *)
C29_KeysNeverCollide ==
  \A p, q \in queries.cache :
    DeepEqual(p.queryKey, q.queryKey) =>
      /\ p.factory = q.factory
      /\ DeepEqual(<<p.arg>>, <<q.arg>>)

(* C30: the identifier a request carries in its path (uuid, level,
   technique number, date, userId) has passed validation and fills exactly
   one path segment: it contains no "/", no "?" and no "#". *)
C30_IdentifierIsOneSegment ==
  Sent => \A i \in 1..Len(PathParam) : PathParam[i] \notin {"/", "?", "#"}
====
